---------------------------- MODULE Spec2Model ----------------------------
(***************************************************************************)
(* JIA-Connect: the prescription validation engine                         *)
(* (ai_backend/agents/tripulacion.py, ai_backend/tools/mis_herramientas.py,*)
(* ai_backend/agents/run_tripulacion.py) as a state machine.               *)
(*                                                                         *)
(* Texts are sequences of phrases.  A phrase is a tuple whose first        *)
(* element names what the phrase says and whose other elements are the     *)
(* numbers or names written in it; a regular expression of the source is   *)
(* the set of phrases it matches, and re.search is the first phrase of the *)
(* text in that set.  Numbers are whole milligrams / kilograms.            *)
(* A Python Optional is a sequence: <<>> is None, <<v>> is the value v.    *)
(***************************************************************************)
EXTENDS Integers, Sequences, FiniteSets, TLC

\* ------------------------------------------------------------------ bounds
\* an absolute dose written in a prescription ranges over 0..MaxMg
MaxMg == 3
\* a per-kg dose written in a prescription ranges over 0..MaxMgKg
MaxMgKg == 2
\* a numeric patient weight ranges over 0..MaxPeso
MaxPeso == 2
\* a dose limit written in a guideline ranges over 0..MaxLimite
MaxLimite == 2
\* tokens of one language-model reply
MaxRaw == 4
\* calls of ejecutar_validacion_medica in one behaviour of SpecPar
MaxLlamadas == 2
\* phrases in a prescription text of the extraction runs
MaxFrases == 3

\* largest dose, in whole mg/m2 or mg, written in a plan
MaxDosisPlan == 16

\* largest body surface area, in hundredths of m2
MaxBsa == 120

\* medicines in a reply of the structurer's language model
MaxMeds == 2

\* tokens in a reply of the auditor's language model
MaxResp == 3

\* calls of guardar_historial and guardar_paciente that run at the same time
MaxHilos == 2

\* calendar months the dashboard is used over
MaxMes == 2

\* words in a question to the patient assistant
MaxPalabras == 3

\* the visits one session of the visit form saves
MaxVisitas == 1

\* the sign-ins and log-outs of one browser session, and the sessions
MaxIntentos == 3

MaxSesiones == 2

\* ------------------------------------------------------- Python helpers
None == <<>>

Some(v) == <<v>>

\* bool(x) of an Optional[float]: None and 0.0 are falsy
Truthy(x) == x # None /\ x[1] # 0

\* bool(peso_paciente): None, 0 and "" are falsy, any other string is truthy
PesoTruthy(p) == \/ p.tipo = "float" /\ p.v # 0
                 \/ p.tipo = "str"

\* float(peso_paciente) succeeds on a number and raises TypeError on None,
\* ValueError on a non-numeric string
FloatRaises(p) == p.tipo # "float"

\* ------------------------------------------------------------- words
\* farmacos_conocidos, in list order
farmacos_conocidos == << "ibuprofeno", "metotrexato", "metotrexate", "naproxeno",
                         "paracetamol", "prednisona", "adalimumab", "etanercept",
                         "tocilizumab", "sulfasalazina", "leflunomida",
                         "hidroxicloroquina", "azatioprina", "ciclosporina",
                         "infliximab" >>

\* str.capitalize() on the words of the model, as <<lower-case word, capitalized>>
CapTabla == { <<"ibuprofeno", "Ibuprofeno">>, <<"metotrexato", "Metotrexato">>,
              <<"metotrexate", "Metotrexate">>, <<"naproxeno", "Naproxeno">>,
              <<"paracetamol", "Paracetamol">>, <<"prednisona", "Prednisona">>,
              <<"adalimumab", "Adalimumab">>, <<"etanercept", "Etanercept">>,
              <<"tocilizumab", "Tocilizumab">>, <<"sulfasalazina", "Sulfasalazina">>,
              <<"leflunomida", "Leflunomida">>,
              <<"hidroxicloroquina", "Hidroxicloroquina">>,
              <<"azatioprina", "Azatioprina">>, <<"ciclosporina", "Ciclosporina">>,
              <<"infliximab", "Infliximab">>, <<"seguimiento", "Seguimiento">>,
              <<"semanal", "Semanal">>, <<"diario", "Diario">>, <<"diaria", "Diaria">>,
              <<"cada", "Cada">>, <<"desconocido", "Desconocido">>,
              <<"ibuprofen", "Ibuprofen">>, <<"aspirina", "Aspirina">>,
              <<"tomar", "Tomar">> }

\* str.lower(): a capitalized word goes back to its lower-case form, any other
\* word of the model is lower-case already
Lower(w) == IF w = "MTX" THEN "mtx"
            ELSE IF \E p \in CapTabla : p[2] = w
            THEN (CHOOSE p \in CapTabla : p[2] = w)[1]
            ELSE w

\* str.capitalize(): the first letter in upper case, the rest in lower case
Capitalize(w) == (CHOOSE p \in CapTabla : p[1] = Lower(w))[2]

\* the names of the model that occur as a substring of the lower-case word w
\* ("ibuprofen" in "ibuprofeno"; no other name of the model is inside another)
Substrings(w) == IF w = "ibuprofeno" THEN {"ibuprofeno", "ibuprofen"} ELSE {w}

\* ----------------------------------------------------- prescription text
\* Phrases of a prescription:
\*   <<"nombre", w>>   the word w (a drug name or any word of 4 letters or more)
\*   <<"mg_kg", n>>    "n mg/kg"        <<"mg", n>>  "n mg"
\*   <<"mg_m2", n>>    "n mg/m2"
\*   <<"cada_h", n>>   "cada n h"       <<"semanal">>  <<"diario">>  <<"diaria">>
\* the word a phrase spells, as the regex [A-Za-z...]{4,} sees it
PalabraDe(ph) == CASE ph[1] = "nombre"  -> Some(ph[2])
                   [] ph[1] = "cada_h"  -> Some("cada")
                   [] ph[1] = "semanal" -> Some("semanal")
                   [] ph[1] = "diario"  -> Some("diario")
                   [] ph[1] = "diaria"  -> Some("diaria")
                   [] OTHER             -> None

\* f in texto_lower
EnTexto(f, texto) == \E i \in 1..Len(texto) :
                        /\ PalabraDe(texto[i]) # None
                        /\ f \in Substrings(Lower(PalabraDe(texto[i])[1]))

\* re.search over a text: the index of the first phrase in the set of kinds
\* the pattern matches, 0 when there is none
Buscar(kinds, texto) == IF \E i \in 1..Len(texto) : texto[i][1] \in kinds
                        THEN CHOOSE i \in 1..Len(texto) :
                               /\ texto[i][1] \in kinds
                               /\ \A j \in 1..(i-1) : texto[j][1] \notin kinds
                        ELSE 0

\* PASO 1 with the known drugs looked for in text order
ExtraerFarmacoOrdenTexto(texto) ==
    LET conocidas == { i \in 1..Len(texto) :
                         /\ PalabraDe(texto[i]) # None
                         /\ \E k \in 1..Len(farmacos_conocidos) :
                               farmacos_conocidos[k]
                                  \in Substrings(Lower(PalabraDe(texto[i])[1])) }
        palabras  == { i \in 1..Len(texto) : PalabraDe(texto[i]) # None }
    IN  IF conocidas # {}
        THEN LET i == CHOOSE i \in conocidas : \A h \in conocidas : i <= h
                 w == Lower(PalabraDe(texto[i])[1])
             IN  IF w = "metotrexate" THEN "Metotrexato" ELSE Capitalize(w)
        ELSE IF palabras # {}
        THEN LET i == CHOOSE i \in palabras : \A h \in palabras : i <= h
             IN  Capitalize(PalabraDe(texto[i])[1])
        ELSE "Desconocido"

\* PASO 1: the first known drug, in list order, that is in the text; else the
\* first word of 4 letters or more, capitalized; else "Desconocido"
ExtraerFarmaco(texto) ==
    LET hits == { k \in 1..Len(farmacos_conocidos) : EnTexto(farmacos_conocidos[k], texto) }
        palabras == { i \in 1..Len(texto) : PalabraDe(texto[i]) # None }
    IN  IF hits # {}
        THEN LET k == CHOOSE k \in hits : \A h \in hits : k <= h
             IN  IF farmacos_conocidos[k] = "metotrexate"
                 THEN "Metotrexato"
                 ELSE Capitalize(farmacos_conocidos[k])
        ELSE IF palabras # {}
        THEN LET i == CHOOSE i \in palabras : \A h \in palabras : i <= h
             IN  Capitalize(PalabraDe(texto[i])[1])
        ELSE "Desconocido"

\* PASO 2: (\d+...)\s*mg\s*/\s*kg, first match
ExtraerDosisMgKg(texto) ==
    LET i == Buscar({"mg_kg"}, texto)
    IN  IF i = 0 THEN None ELSE Some(texto[i][2])

\* PASO 2: (\d+...)\s*mg(?!\s*/\s*kg), first match: "n mg" and "n mg/m2" match,
\* "n mg/kg" does not
ExtraerDosisAbsoluta(texto) ==
    LET i == Buscar({"mg", "mg_m2"}, texto)
    IN  IF i = 0 THEN None ELSE Some(texto[i][2])

\* PASO 3 with the keyword "semanal" tried before "cada N h"
ExtraerFrecuenciaSemanalPrimero(texto) ==
    LET i == Buscar({"cada_h"}, texto)
    IN  IF EnTexto("semanal", texto)
        THEN [texto |-> "semanal", horas |-> Some(168)]
        ELSE IF i # 0
        THEN [texto |-> "cada_horas", horas |-> Some(texto[i][2])]
        ELSE IF EnTexto("diario", texto) \/ EnTexto("diaria", texto)
        THEN [texto |-> "diario", horas |-> Some(24)]
        ELSE [texto |-> "", horas |-> None]

\* PASO 3: "cada N h", else "semanal", else "diario"/"diaria", else blank
ExtraerFrecuencia(texto) ==
    LET i == Buscar({"cada_h"}, texto)
    IN  IF i # 0
        THEN [texto |-> "cada_horas", horas |-> Some(texto[i][2])]
        ELSE IF EnTexto("semanal", texto)
        THEN [texto |-> "semanal", horas |-> Some(168)]
        ELSE IF EnTexto("diario", texto) \/ EnTexto("diaria", texto)
        THEN [texto |-> "diario", horas |-> Some(24)]
        ELSE [texto |-> "", horas |-> None]

\* variantes_farmaco.get(farmaco, [farmaco.lower()])
NombresBuscar(farmaco) ==
    CASE farmaco = "Metotrexato" -> <<"metotrexato", "metotrexate", "methotrexate", "MTX">>
      [] farmaco = "Ibuprofeno"  -> <<"ibuprofeno", "ibuprofen">>
      [] farmaco = "Paracetamol" -> <<"paracetamol", "acetaminofen", "acetaminofén">>
      [] farmaco = "Prednisona"  -> <<"prednisona", "prednisone">>
      [] farmaco = "Tocilizumab" -> <<"tocilizumab">>
      [] farmaco = "Adalimumab"  -> <<"adalimumab", "humira">>
      [] OTHER                   -> << Lower(farmaco) >>

\* ------------------------------------------------------ evidence text
\* A document of the vector store: the reference file it comes from and the
\* phrases of its text.  Phrases of a guideline text:
\*   <<"menos_de_semana", n>>  "menos de n mg/semana"
\*   <<"dosis_bajas", n>>      "dosis bajas (menos de n mg"
\*   <<"dosis_maxima", n>>     "dosis máxima de n mg"
\*   <<"maximo_semana", n>>    "máximo n mg/semana"
\*   <<"dosis_maxima_diaria", n>>  "dosis máxima diaria de n mg"
\*   <<"no_exceder", n>>       "no debe exceder de n mg"
\*   <<"hasta", n>>            "hasta n mg"
\*   <<"mg_kg_dia", n>>        "n mg/kg/día"
\*   <<"rango_semana", n, m>>  "n-m mg/semana"
\*   <<"contraindicado">>      "contraindicado en niños"
\*   <<"no_indicado">>         "no recomendado para artritis"
\*   <<"no_usar">>             "no usar en niños"
\*   <<"artritis">>            a sentence with the word "artritis"
\*   <<"nombre", w>>           a sentence naming w
\*   <<"error">>               a sentence with the word "error"
\*   <<"otro">>                any other sentence
\* and of what ConsultarGuiaRAGTool._run adds or returns instead:
\*   <<"cabecera">>            "--- EVIDENCIA ENCONTRADA ---"
\*   <<"fuente", f>>           "[Fuente: <basename of f> - Pág p]:"
\*   <<"error_db">>            "Error: No existe DB vectorial. ..."
\*   <<"error_rag">>           "Error RAG: <exception>"
\*   <<"no_encontro">>         "No se encontró información en las guías médicas."
\*   <<"error_consulta">>      "Error consultando RAG: <exception>"

\* farmacos_fichas, in dict order: <<alias, reference file>>
farmacos_fichas == << <<"metotrexato", "ficha tecnica metotrexate.pdf">>,
                      <<"metotrexate", "ficha tecnica metotrexate.pdf">>,
                      <<"methotrexate", "ficha tecnica metotrexate.pdf">>,
                      <<"mtx", "ficha tecnica metotrexate.pdf">>,
                      <<"ibuprofeno", "ficha tecnica ibuprofeno.pdf">>,
                      <<"ibuprofen", "ficha tecnica ibuprofeno.pdf">>,
                      <<"paracetamol", "ficha tecnica paracetamol.pdf">>,
                      <<"acetaminofen", "ficha tecnica paracetamol.pdf">>,
                      <<"prednisona", "ficha tecnica prednisona.pdf">>,
                      <<"tocilizumab", "ficha tecnica Tocilizumab.pdf">>,
                      <<"adalimumab", "ficha tecnica Adalimumab.pdf">>,
                      <<"humira", "ficha tecnica Adalimumab.pdf">> >>

\* the names of the model inside the lower-cased basename of a reference file
NombresEnFuente(f) ==
    CASE f = "ficha tecnica metotrexate.pdf" -> {"metotrexate"}
      [] f = "ficha tecnica ibuprofeno.pdf"  -> {"ibuprofeno", "ibuprofen"}
      [] f = "ficha tecnica paracetamol.pdf" -> {"paracetamol"}
      [] f = "ficha tecnica prednisona.pdf"  -> {"prednisona"}
      [] f = "ficha tecnica Tocilizumab.pdf" -> {"tocilizumab"}
      [] f = "ficha tecnica Adalimumab.pdf"  -> {"adalimumab"}
      [] OTHER                               -> {}

\* the lower-case names and keywords a phrase of an evidence text contains
ContenidoDe(ph) ==
    CASE ph[1] = "nombre"         -> Substrings(Lower(ph[2]))
      [] ph[1] = "fuente"         -> NombresEnFuente(ph[2])
      [] ph[1] = "artritis"       -> {"artritis"}
      [] ph[1] = "no_indicado"    -> {"artritis"}
      [] ph[1] = "error"          -> {"error"}
      [] ph[1] = "error_db"       -> {"error"}
      [] ph[1] = "error_rag"      -> {"error"}
      [] ph[1] = "error_consulta" -> {"error"}
      [] ph[1] = "no_encontro"    -> {"no se encontr"}
      [] OTHER                    -> {}

\* w in evidencia.lower()
EnEvidencia(w, ev) == \E i \in 1..Len(ev) : w \in ContenidoDe(ev[i])

\* the text ConsultarGuiaRAGTool._run formats from the documents found
RECURSIVE Formatear(_)
Formatear(docs) ==
    IF docs = <<>> THEN <<>>
    ELSE << <<"fuente", Head(docs).source>> >> \o Head(docs).content
         \o Formatear(Tail(docs))

Contexto(docs) == << <<"cabecera">> >> \o Formatear(docs)

\* the first alias of farmacos_fichas, in dict order, inside pregunta.lower();
\* 0 when the question names no mapped drug
AliasEnPregunta(pregunta) ==
    LET hits == { k \in 1..Len(farmacos_fichas) :
                    \E i \in 1..Len(pregunta) :
                       /\ pregunta[i][1] = "nombre"
                       /\ farmacos_fichas[k][1] \in Substrings(Lower(pregunta[i][2])) }
    IN  IF hits = {} THEN 0 ELSE CHOOSE k \in hits : \A h \in hits : k <= h

\* sequences without repetition of at most n elements of S
SeqsSinRep(S, n) ==
    UNION { { q \in [1..k -> S] : \A i, j \in 1..k : i # j => q[i] # q[j] }
            : k \in 0..n }

\* ------------------------------------------------- threshold and decision
\* patrones_dosis_max, in list order: the phrases each pattern matches
patrones_dosis_max == << {"menos_de_semana", "dosis_bajas_semana"},
                         {"dosis_bajas", "dosis_bajas_semana"},
                         {"dosis_maxima"},
                         {"maximo_semana"},
                         {"dosis_maxima", "dosis_maxima_diaria"},
                         {"no_exceder"},
                         {"hasta"},
                         {"mg_kg_dia"},
                         {"rango_semana"} >>

\* the union of the patterns applied as one: the first phrase of the text,
\* in text order, that any pattern matches
ExtraerDosisMaxEnTexto(ev) ==
    LET todos == UNION { patrones_dosis_max[k] : k \in 1..Len(patrones_dosis_max) }
        i     == Buscar(todos, ev)
    IN  IF i = 0 THEN None ELSE Some(ev[i][Len(ev[i])])

\* grupos[0] in place of grupos[-1]: the lower bound of a range
ExtraerDosisMaxPrimerGrupo(ev) ==
    LET hits == { k \in 1..Len(patrones_dosis_max) : Buscar(patrones_dosis_max[k], ev) # 0 }
    IN  IF hits = {} THEN None
        ELSE LET k  == CHOOSE k \in hits : \A h \in hits : k <= h
                 ph == ev[Buscar(patrones_dosis_max[k], ev)]
             IN  Some(ph[2])

\* PASO 5 with the limits per kg left out, as not comparable with a dose in mg
ExtraerDosisMaxSinPorKg(ev) ==
    LET hits == { k \in 1..Len(patrones_dosis_max) :
                    /\ Buscar(patrones_dosis_max[k], ev) # 0
                    /\ patrones_dosis_max[k] # {"mg_kg_dia"} }
    IN  IF hits = {} THEN None
        ELSE LET k  == CHOOSE k \in hits : \A h \in hits : k <= h
                 ph == ev[Buscar(patrones_dosis_max[k], ev)]
             IN  Some(ph[Len(ph)])

\* PASO 5: the last group of the first match of the first pattern, in list
\* order, that matches the evidence; None when no pattern matches
ExtraerDosisMax(ev) ==
    LET hits == { k \in 1..Len(patrones_dosis_max) : Buscar(patrones_dosis_max[k], ev) # 0 }
    IN  IF hits = {} THEN None
        ELSE LET k  == CHOOSE k \in hits : \A h \in hits : k <= h
                 ph == ev[Buscar(patrones_dosis_max[k], ev)]
             IN  Some(ph[Len(ph)])

\* patrones_contraindicacion: the phrases the three patterns match
patrones_contraindicacion == << {"contraindicado"}, {"no_indicado"}, {"no_usar"} >>

Contraindicacion(ev) ==
    \E k \in 1..Len(patrones_contraindicacion) : Buscar(patrones_contraindicacion[k], ev) # 0

\* the dose of lines 270-275 and 316-319: per-kg dose x weight, else the
\* absolute dose, else None
DosisTotal(mgkg, abs, peso) ==
    IF Truthy(mgkg) /\ PesoTruthy(peso) THEN Some(mgkg[1] * peso.v)
    ELSE IF Truthy(abs) THEN abs
    ELSE None

\* float(peso_paciente) of line 271 (and 317) is evaluated and raises
DosisTotalRaises(mgkg, peso) == Truthy(mgkg) /\ PesoTruthy(peso) /\ FloatRaises(peso)

\* CASO 2 with the comparison turned round
CompararDosisInvertido(prescrita, max_guia) ==
    IF Truthy(prescrita)
    THEN IF max_guia[1] >= prescrita[1]
         THEN [es_aij |-> FALSE, decision |-> "RECHAZADA", razon |-> "dosis_excesiva"]
         ELSE [es_aij |-> TRUE, decision |-> "APROBADA", razon |-> "dosis_en_rango"]
    ELSE [es_aij |-> TRUE, decision |-> "ALERTA", razon |-> "dosis_no_verificable"]

\* CASO 2 with > in place of >=
CompararDosisEstricto(prescrita, max_guia) ==
    IF Truthy(prescrita)
    THEN IF prescrita[1] > max_guia[1]
         THEN [es_aij |-> FALSE, decision |-> "RECHAZADA", razon |-> "dosis_excesiva"]
         ELSE [es_aij |-> TRUE, decision |-> "APROBADA", razon |-> "dosis_en_rango"]
    ELSE [es_aij |-> TRUE, decision |-> "ALERTA", razon |-> "dosis_no_verificable"]

\* CASO 2 whose last branch leaves the default decision of line 239
CompararDosisSinAlerta(prescrita, max_guia) ==
    IF Truthy(prescrita)
    THEN IF prescrita[1] >= max_guia[1]
         THEN [es_aij |-> FALSE, decision |-> "RECHAZADA", razon |-> "dosis_excesiva"]
         ELSE [es_aij |-> TRUE, decision |-> "APROBADA", razon |-> "dosis_en_rango"]
    ELSE [es_aij |-> TRUE, decision |-> "APROBADA", razon |-> "dosis_no_verificable"]

\* CASO 2, lines 277-292
CompararDosis(prescrita, max_guia) ==
    IF Truthy(prescrita)
    THEN IF prescrita[1] >= max_guia[1]
         THEN [es_aij |-> FALSE, decision |-> "RECHAZADA", razon |-> "dosis_excesiva"]
         ELSE [es_aij |-> TRUE, decision |-> "APROBADA", razon |-> "dosis_en_rango"]
    ELSE [es_aij |-> TRUE, decision |-> "ALERTA", razon |-> "dosis_no_verificable"]

\* CASO 3 and CASO 4 where evidence that names the drug approves
SinDosisMaxAprueba(farmaco, ev) ==
    IF EnEvidencia("no se encontr", ev) \/ EnEvidencia("error", ev) \/ ev = <<>>
    THEN [es_aij |-> FALSE, decision |-> "ALERTA", razon |-> "sin_informacion"]
    ELSE IF EnEvidencia(Lower(farmaco), ev) \/ EnEvidencia("artritis", ev)
    THEN [es_aij |-> TRUE, decision |-> "APROBADA", razon |-> "sin_dosis_maxima"]
    ELSE [es_aij |-> FALSE, decision |-> "ALERTA", razon |-> "sin_evidencia_clara"]

\* CASO 3 and CASO 4, lines 294-310
SinDosisMax(farmaco, ev) ==
    IF EnEvidencia("no se encontr", ev) \/ EnEvidencia("error", ev) \/ ev = <<>>
    THEN [es_aij |-> FALSE, decision |-> "ALERTA", razon |-> "sin_informacion"]
    ELSE IF EnEvidencia(Lower(farmaco), ev) \/ EnEvidencia("artritis", ev)
    THEN [es_aij |-> TRUE, decision |-> "ALERTA", razon |-> "sin_dosis_maxima"]
    ELSE [es_aij |-> FALSE, decision |-> "ALERTA", razon |-> "sin_evidencia_clara"]

\* PASO 6 with the threshold comparison tried before the contraindication
DecisionUmbralPrimero(farmaco, ev, max_guia, mgkg, abs, peso) ==
    IF Truthy(max_guia)
    THEN CompararDosis(DosisTotal(mgkg, abs, peso), max_guia)
    ELSE IF Contraindicacion(ev)
    THEN [es_aij |-> FALSE, decision |-> "RECHAZADA", razon |-> "contraindicado"]
    ELSE SinDosisMax(farmaco, ev)

\* PASO 6, lines 238-310, when line 271 does not raise
Decision(farmaco, ev, max_guia, mgkg, abs, peso) ==
    IF Contraindicacion(ev)
    THEN [es_aij |-> FALSE, decision |-> "RECHAZADA", razon |-> "contraindicado"]
    ELSE IF Truthy(max_guia)
    THEN CompararDosis(DosisTotal(mgkg, abs, peso), max_guia)
    ELSE SinDosisMax(farmaco, ev)

\* line 271 is reached and raises: CASO 2 with a truthy per-kg dose and weight
DecisionRaises(ev, max_guia, mgkg, peso) ==
    /\ ~Contraindicacion(ev)
    /\ Truthy(max_guia)
    /\ DosisTotalRaises(mgkg, peso)

\* ------------------------------------------------------------- results
\* f"{x:.0f} mg" of a whole number of mg, and "N/D"
DosisStr(x) == [nd |-> FALSE, mg |-> x]

DosisND == [nd |-> TRUE, mg |-> 0]

\* the keys of the record ProcesarRecetaTool._run builds
ClavesProc == {"estado", "decision", "analisis.farmaco", "analisis.dosis_calculada",
               "analisis.dosis_mg_kg_detectada", "analisis.frecuencia",
               "analisis.frecuencia_horas", "auditoria.es_aij", "auditoria.razon"}

\* the keys of the fallback record of lines 352-369
ClavesFallback == ClavesProc \cup {"analisis.dosis_absoluta_mg",
                                   "auditoria.dosis_max_guia", "auditoria.evidencia_raw"}

\* ProcesarRecetaTool._run: the dose shown is peso x dosis_mg_kg, or "N/D" when
\* dosis_mg_kg is None; estado follows es_tratamiento_aij.  json.dumps of the
\* record followed by json.loads gives the record back.
ProcRun(farmaco, peso, mgkg, frec, es_aij, razon, decision) ==
    [ claves |-> ClavesProc,
      estado |-> IF es_aij THEN "Aprobada" ELSE "Alerta",
      decision |-> decision,
      farmaco |-> farmaco,
      dosis_calculada |-> IF mgkg = None THEN DosisND ELSE DosisStr(peso * mgkg[1]),
      dosis_mg_kg_detectada |-> mgkg,
      dosis_absoluta_mg |-> None,
      frecuencia |-> frec.texto,
      frecuencia_horas |-> frec.horas,
      es_aij |-> es_aij,
      razon |-> razon,
      dosis_max_guia |-> None,
      raw_output |-> <<>> ]

\* lines 338-348: the parsed record, with the absolute dose added when there is
\* one and no per-kg dose
ConDosisAbsoluta(res, mgkg, abs) ==
    IF Truthy(abs) /\ ~Truthy(mgkg)
    THEN [res EXCEPT !.claves = @ \cup {"analisis.dosis_absoluta_mg"},
                     !.dosis_absoluta_mg = abs]
    ELSE res

\* lines 350-369: the record built when proc._run or float(peso_paciente) raised
Fallback(farmaco, mgkg, abs, frec, es_aij, razon, decision, calculada, max_guia) ==
    [ claves |-> ClavesFallback,
      estado |-> IF decision = "APROBADA" THEN "Aprobada" ELSE decision,
      decision |-> decision,
      farmaco |-> farmaco,
      dosis_calculada |-> IF Truthy(calculada) THEN DosisStr(calculada[1]) ELSE DosisND,
      dosis_mg_kg_detectada |-> mgkg,
      dosis_absoluta_mg |-> abs,
      frecuencia |-> frec.texto,
      frecuencia_horas |-> frec.horas,
      es_aij |-> es_aij,
      razon |-> razon,
      dosis_max_guia |-> max_guia,
      raw_output |-> <<>> ]

\* PASO 8, lines 324-369
Estructurado(farmaco, peso, mgkg, abs, frec, es_aij, razon, decision, calculada, max_guia) ==
    IF FloatRaises(peso)
    THEN Fallback(farmaco, mgkg, abs, frec, es_aij, razon, decision, calculada, max_guia)
    ELSE ConDosisAbsoluta(ProcRun(farmaco, peso.v, mgkg, frec, es_aij, razon, decision),
                          mgkg, abs)

\* nothing returned or written yet
NoResultado ==
    [ claves |-> {}, estado |-> "", decision |-> "", farmaco |-> "",
      dosis_calculada |-> DosisND, dosis_mg_kg_detectada |-> None,
      dosis_absoluta_mg |-> None, frecuencia |-> "", frecuencia_horas |-> None,
      es_aij |-> FALSE, razon |-> "", dosis_max_guia |-> None, raw_output |-> <<>> ]

\* ------------------------------------------- run_tripulacion.main: parsing
\* A language-model reply is a sequence of tokens: "{", "}", "txt" (any other
\* text) and the members of a JSON object ("key=value", separators left out).
Miembros == {"decision=APROBADA", "es_tratamiento_aij=true", "otra=1"}

TokensRaw == {"{", "}", "txt"} \cup Miembros

\* the members whose key is one of required_keys
MiembrosRequeridos == {"decision=APROBADA", "es_tratamiento_aij=true"}

\* raw.find("{"): the first index, 0 for Python's -1
Find(raw, ch) == IF \E i \in 1..Len(raw) : raw[i] = ch
                 THEN CHOOSE i \in 1..Len(raw) :
                        raw[i] = ch /\ \A j \in 1..(i-1) : raw[j] # ch
                 ELSE 0

\* raw.rfind("}"): the last index, 0 for Python's -1
RFind(raw, ch) == IF \E i \in 1..Len(raw) : raw[i] = ch
                  THEN CHOOSE i \in 1..Len(raw) :
                         raw[i] = ch /\ \A j \in (i+1)..Len(raw) : raw[j] # ch
                  ELSE 0

\* json.loads succeeds on a text: an object is "{", members, "}"
EsJSON(q) == /\ Len(q) >= 2
             /\ q[1] = "{"
             /\ q[Len(q)] = "}"
             /\ \A i \in 2..(Len(q)-1) : q[i] \in Miembros

\* the parse with the first "}" in place of the last
ParsearDataPrimerCierre(raw) ==
    LET inicio == Find(raw, "{")
        fin    == Find(raw, "}")
    IN  IF inicio # 0 /\ fin # 0 /\ fin > inicio /\ EsJSON(SubSeq(raw, inicio, fin))
        THEN { raw[i] : i \in (inicio+1)..(fin-1) }
        ELSE {}

\* lines 138-145: data, the dict parsed from raw[inicio:fin+1], {} on failure
ParsearData(raw) ==
    LET inicio == Find(raw, "{")
        fin    == RFind(raw, "}")
    IN  IF inicio # 0 /\ fin # 0 /\ fin > inicio /\ EsJSON(SubSeq(raw, inicio, fin))
        THEN { raw[i] : i \in (inicio+1)..(fin-1) }
        ELSE {}

\* line 159: not data or not required_keys.intersection(data.keys())
EsErrorLLM(data) == data = {} \/ data \cap MiembrosRequeridos = {}

\* lines 160-168
ErrorPayload(raw) ==
    [ NoResultado EXCEPT !.claves = {"estado", "analisis", "auditoria.es_aij",
                                      "auditoria.razon", "auditoria.raw_output"},
                         !.estado = "Error",
                         !.razon = "llm_sin_json",
                         !.raw_output = raw ]

\* lines 173-193: the record main builds from the parsed reply
ResultadoLLM(data, peso) ==
    ProcRun("Desconocido", peso, None, [texto |-> "", horas |-> None],
            "es_tratamiento_aij=true" \in data, "sin_motivo",
            IF "decision=APROBADA" \in data THEN "APROBADA" ELSE "None")

\* ------------------------------------------------------------ the state
VARIABLES
    modo,              \* "validacion": ejecutar_validacion_medica; "cli": run_tripulacion.main
    pc,                \* where the call is
    texto_medico,      \* the prescription text
    peso_paciente,     \* the weight argument: a number, None or a string
    corpus,            \* the documents the vector store holds
    farmaco, dosis_mg_kg, dosis_absoluta, frecuencia,
    idx,               \* position of the loop over nombres_buscar
    mejor_evidencia, evidencia_texto,
    dosis_max_guia, es_aij, decision, razon,
    dosis_calculada,
    resultado,         \* the record returned (validacion) or written to stdout (cli)
    rag_pc, pregunta, resultados_final, rag_ret,   \* ConsultarGuiaRAGTool._run
    rag_eventos,       \* what happened inside the current call of _run
    raw,               \* the language-model reply
    prev, llamadas,    \* the previous call of a pair of calls, and the calls made
    respuestas,        \* the answers rag._run gave in this call, in order
    plan_texto, bsa,   \* the arguments of _validar_plan_local
    res_local,         \* the record _validar_plan_local returned
    pauta_json,        \* /procesar-seguro: what estructurar_texto returned
    medicamentos,      \* the names validar_pauta puts in its query and prompt
    analisis_seguridad, \* the verdict validar_pauta returned
    file_historial,    \* mobile_app/historial_pacientes.json
    file_pacientes,    \* mobile_app/pacientes.json
    hilos,             \* the calls of guardar_historial and guardar_paciente under way
    mes,               \* ui_dashboard: the calendar month of date.today()
    paciente,          \* the patient dict the dashboard holds
    condiciones,       \* the alert types whose condition held at the last generar_alertas
    alertas,           \* what the last generar_alertas returned
    marcadas,          \* the calls of marcar_alerta_resuelta so far, as <<id, month>>
    duda,              \* patient_bot: the question asked
    historial_paciente, \* the visits of the patient who asks
    respuesta_bot,     \* what responder_duda_paciente returned
    modo_visita,       \* st.session_state of the visit form (ui_visita.py)
    visita_step, temp_visita_data,
    plan_final,        \* the text area "Detailed plan:", key "plan_final"
    ia_validacion_hecha, ia_resultado_cache,
    botones,           \* the button that caused each call of guardar_historial
    password_correct,  \* st.session_state of the login (auth.py), an Optional
    username, password, \* the text inputs of the login form
    pantalla,          \* what the last run of app.py rendered
    intentos,          \* the credentials submitted in this session, in order
    sesiones           \* the browser sessions opened so far

vars == << modo, pc, texto_medico, peso_paciente, corpus, farmaco, dosis_mg_kg,
           dosis_absoluta, frecuencia, idx, mejor_evidencia, evidencia_texto,
           dosis_max_guia, es_aij, decision, razon, dosis_calculada, resultado,
           rag_pc, pregunta, resultados_final, rag_ret, rag_eventos, raw, prev,
           llamadas, respuestas, plan_texto, bsa, res_local,
           pauta_json, medicamentos, analisis_seguridad,
           file_historial, file_pacientes, hilos,
           mes, paciente, condiciones, alertas, marcadas,
           duda, historial_paciente, respuesta_bot,
           modo_visita, visita_step, temp_visita_data, plan_final,
           ia_validacion_hecha, ia_resultado_cache, botones,
           password_correct, username, password, pantalla, intentos, sesiones >>

entrada == << modo, texto_medico, peso_paciente, corpus >>

extraidos == << farmaco, dosis_mg_kg, dosis_absoluta, frecuencia >>

veredicto == << dosis_max_guia, es_aij, decision, razon >>

rag_vars == << rag_pc, pregunta, resultados_final, rag_ret, rag_eventos >>

par == << prev, llamadas >>

local == << plan_texto, bsa, res_local >>

servicio == << pauta_json, medicamentos, analisis_seguridad >>

disco == << file_historial, file_pacientes, hilos >>

panel == << mes, paciente, condiciones, alertas, marcadas >>

\* the variables of the other programs of the repository
bot == << duda, historial_paciente, respuesta_bot >>

visita == << modo_visita, visita_step, temp_visita_data, plan_final,
            ia_validacion_hecha, ia_resultado_cache, botones >>

sesion == << password_correct, username, password, pantalla, intentos, sesiones >>

otros == << servicio, disco, panel, bot, visita, sesion >>

\* the other programs, seen from each of them
fuera_servicio == << disco, panel, bot, visita, sesion >>

fuera_disco == << servicio, panel, bot, visita, sesion >>

fuera_panel == << servicio, hilos, file_historial, bot, visita, sesion >>

fuera_bot == << servicio, disco, panel, visita, sesion >>

fuera_visita == << servicio, hilos, panel, bot, sesion >>

fuera_sesion == << servicio, disco, panel, bot, visita >>

\* the variables of ejecutar_validacion_medica and of run_tripulacion.main,
\* but for modo, pc and raw
nucleo == << texto_medico, peso_paciente, corpus, extraidos, idx, mejor_evidencia,
             evidencia_texto, veredicto, dosis_calculada, resultado, rag_vars, par,
             respuestas >>

\* ------------------------------------------------------ input domains
Pesos == { [tipo |-> "float", v |-> n] : n \in 0..MaxPeso }
         \cup { [tipo |-> "None", v |-> 0], [tipo |-> "str", v |-> 0] }

\* the dose part of a prescription: none, an absolute dose, a per-kg dose, or both
DosisPartes ==
    { <<>> }
    \cup { << <<"mg", n>> >> : n \in 0..MaxMg }
    \cup { << <<"mg_kg", k>> >> : k \in 0..MaxMgKg }
    \cup { << <<"mg_kg", k>>, <<"mg", MaxMg>> >> : k \in 0..MaxMgKg }

TextosDecision ==
    { << <<"nombre", "naproxeno">> >> \o d \o << <<"semanal">> >> : d \in DosisPartes }
    \cup { << <<"nombre", "ibuprofeno">>, <<"mg_kg", 1>>, <<"cada_h", 8>> >>,
           << <<"nombre", "seguimiento">> >>,
           << <<"mg", 1>> >> }

Doc(f, ph) == [source |-> f, content |-> << ph >>]

DocsDecision ==
    { Doc("guia aij.pdf", <<"hasta", n>>) : n \in 0..MaxLimite }
    \cup { Doc("guia aij.pdf", <<"contraindicado">>),
           Doc("guia aij.pdf", <<"artritis">>),
           Doc("guia aij.pdf", <<"error">>),
           Doc("guia aij.pdf", <<"otro">>),
           Doc("guia aij.pdf", <<"rango_semana", 1, MaxLimite>>),
           Doc("ficha tecnica ibuprofeno.pdf", <<"mg_kg_dia", MaxLimite>>) }

\* the store holds nothing, one document or two
CorporaDecision == { {a, b} : a, b \in DocsDecision } \cup { {} }

TextosCli == { << <<"nombre", "ibuprofeno">>, <<"mg_kg", 1>> >>, <<>> }

CorporaCli == { {}, {Doc("ficha tecnica ibuprofeno.pdf", <<"mg_kg_dia", MaxLimite>>)} }

Raws == UNION { [1..n -> TokensRaw] : n \in 0..MaxRaw }

NoLlamada == [hay |-> FALSE]

\* _validar_plan_local has not been called
NoResLocal == [ decision |-> "", farmaco |-> "", dosis_prescrita |-> None,
                dosis_total |-> None, frecuencia |-> "", razon |-> "" ]

SinPlan == plan_texto = <<>> /\ bsa = 0 /\ res_local = NoResLocal

\* procesar_receta has not been called
NoPauta == [ claves |-> {}, tratamiento_secuencial |-> <<>>, lista_medicamentos |-> <<>> ]

NoAnalisis == [ claves |-> {}, aprobado |-> FALSE, alertas |-> "", debug |-> "" ]

SinServicio == pauta_json = NoPauta /\ medicamentos = <<>> /\ analisis_seguridad = NoAnalisis

\* the patients and the processes of the model
Pacs == {"P_1", "P_2"}

Hilos == 1..MaxHilos

\* a file: truncado is TRUE between open(..., "w") and the end of json.dump,
\* db is the dict its text parses to
Fichero(db) == [truncado |-> FALSE, db |-> db]

\* no history and no patient on disk, no save under way
SinHistorial == [p \in Pacs |-> <<>>]

SinPacientes == [p \in Pacs |-> None]

HiloParado == [pc |-> "parado", tipo |-> "", id |-> "", db |-> <<>>]

SinDisco ==
    /\ file_historial = Fichero(SinHistorial)
    /\ file_pacientes = Fichero(SinPacientes)
    /\ hilos = [h \in Hilos |-> HiloParado]

\* the dashboard shows patient P_1, with nothing resolved, in the first month
SinPanel ==
    /\ mes = 1
    /\ paciente = [id |-> "P_1", numero_historia |-> 0, alertas_resueltas |-> {}]
    /\ condiciones = {} /\ alertas = {} /\ marcadas = {}

\* nobody has asked the assistant anything
SinBot == duda = <<>> /\ historial_paciente = <<>> /\ respuesta_bot = ""

\* the visit form is closed, with the defaults of ui_visita.py:194-198
SinVisita ==
    /\ modo_visita = FALSE /\ visita_step = 1 /\ temp_visita_data = <<>>
    /\ plan_final = <<>>
    /\ ia_validacion_hecha = FALSE /\ ia_resultado_cache = <<>>
    /\ botones = <<>>

\* a fresh browser session in front of the login form
SinSesion ==
    /\ password_correct = <<>> /\ username = "" /\ password = ""
    /\ pantalla = "login" /\ intentos = <<>> /\ sesiones = 1

\* none of the other programs is running
SinOtros == SinServicio /\ SinDisco /\ SinPanel /\ SinBot /\ SinVisita /\ SinSesion

\* -------------------------------------------------------------- Init
Locales ==
    /\ pc = "inicio"
    /\ farmaco = "" /\ dosis_mg_kg = None /\ dosis_absoluta = None
    /\ frecuencia = [texto |-> "", horas |-> None]
    /\ idx = 0 /\ mejor_evidencia = <<>> /\ evidencia_texto = <<>>
    /\ dosis_max_guia = None /\ es_aij = TRUE /\ decision = "APROBADA" /\ razon = ""
    /\ dosis_calculada = None
    /\ resultado = NoResultado
    /\ rag_pc = "idle" /\ pregunta = <<>> /\ resultados_final = <<>> /\ rag_ret = <<>>
    /\ rag_eventos = {}
    /\ raw = <<>>
    /\ respuestas = <<>>

Init ==
    /\ \/ /\ modo = "validacion"
          /\ texto_medico \in TextosDecision
          /\ peso_paciente \in Pesos
          /\ corpus \in CorporaDecision
       \/ /\ modo = "cli"
          /\ texto_medico \in TextosCli
          /\ peso_paciente \in { [tipo |-> "float", v |-> MaxPeso], [tipo |-> "None", v |-> 0] }
          /\ corpus \in CorporaCli
    /\ Locales
    /\ SinPlan /\ SinOtros
    /\ prev = NoLlamada /\ llamadas = 1

\* ------------------------------------------ ConsultarGuiaRAGTool._run
\* similarity_search(query, k, filter): the k documents nearest to the query
\* among those S the filter lets through, nearest first.  Which are nearest is
\* the store's business: any order, all of S when it has no more than k.
KFicha == 6

KGeneral == 5

Min(a, b) == IF a < b THEN a ELSE b

Resultados(S, k) ==
    { q \in SeqsSinRep(S, Min(k, Cardinality(S))) : Len(q) = Min(k, Cardinality(S)) }

FichaObjetivo == farmacos_fichas[AliasEnPregunta(pregunta)][2]

DeFicha == { d \in corpus : d.source = FichaObjetivo }

\* _run touches nothing of its caller
RagMarco == UNCHANGED << entrada, pc, extraidos, idx, mejor_evidencia, evidencia_texto,
                         veredicto, dosis_calculada, resultado, raw, par, local, otros, respuestas >>

\* line 110-111: the vector DB directory does not exist
RagSinDB ==
    /\ RagMarco
    /\ rag_eventos' = rag_eventos \cup {"sin_db"}
    /\ rag_pc = "inicio"
    /\ rag_ret' = << <<"error_db">> >>
    /\ rag_pc' = "ret"
    /\ UNCHANGED << pregunta, resultados_final >>

\* lines 114-115 raise (embeddings or Chroma): caught at line 188
RagCargaFalla ==
    /\ RagMarco
    /\ rag_eventos' = rag_eventos \cup {"carga_falla"}
    /\ rag_pc = "inicio"
    /\ rag_ret' = << <<"error_rag">> >>
    /\ rag_pc' = "ret"
    /\ UNCHANGED << pregunta, resultados_final >>

\* the store is loaded and the general search follows, whatever the question
RagCargaOKSinFicha ==
    /\ RagMarco
    /\ rag_eventos' = rag_eventos \cup {"carga_ok"}
    /\ rag_pc = "inicio"
    /\ rag_pc' = "general"
    /\ resultados_final' = <<>>
    /\ UNCHANGED << pregunta, rag_ret >>

\* lines 114-148: the store is loaded and the question is looked up in
\* farmacos_fichas
RagCargaOK ==
    /\ RagMarco
    /\ rag_eventos' = rag_eventos \cup {"carga_ok"}
    /\ rag_pc = "inicio"
    /\ rag_pc' = IF AliasEnPregunta(pregunta) # 0 THEN "ficha" ELSE "general"
    /\ resultados_final' = <<>>
    /\ UNCHANGED << pregunta, rag_ret >>

\* lines 153-163: the targeted search finds documents of the reference file
RagFichaHits ==
    /\ RagMarco
    /\ rag_eventos' = rag_eventos \cup {"ficha_hits"}
    /\ rag_pc = "ficha"
    /\ DeFicha # {}
    /\ \E docs \in Resultados(DeFicha, KFicha) :
          resultados_final' = docs
    /\ rag_pc' = "formatear"
    /\ UNCHANGED << pregunta, rag_ret >>

\* lines 161, 170: the targeted search finds nothing
RagFichaVacia ==
    /\ RagMarco
    /\ rag_eventos' = rag_eventos \cup {"ficha_vacia"}
    /\ rag_pc = "ficha"
    /\ DeFicha = {}
    /\ rag_pc' = "general"
    /\ UNCHANGED << pregunta, resultados_final, rag_ret >>

\* lines 164-165: the targeted search raises; the exception is printed and
\* the general search follows
RagFichaFalla ==
    /\ RagMarco
    /\ rag_eventos' = rag_eventos \cup {"ficha_falla"}
    /\ rag_pc = "ficha"
    /\ rag_pc' = "general"
    /\ UNCHANGED << pregunta, resultados_final, rag_ret >>

\* lines 170-172: the general search finds documents
RagGeneralHits ==
    /\ RagMarco
    /\ rag_eventos' = rag_eventos \cup {"general_hits"}
    /\ rag_pc = "general"
    /\ corpus # {}
    /\ \E docs \in Resultados(corpus, KGeneral) :
          resultados_final' = docs
    /\ rag_pc' = "formatear"
    /\ UNCHANGED << pregunta, rag_ret >>

\* lines 174-175: the general search finds nothing
RagGeneralVacia ==
    /\ RagMarco
    /\ rag_eventos' = rag_eventos \cup {"general_vacia"}
    /\ rag_pc = "general"
    /\ corpus = {}
    /\ rag_ret' = << <<"no_encontro">> >>
    /\ rag_pc' = "ret"
    /\ UNCHANGED << pregunta, resultados_final >>

\* line 171 raises and no try of _run catches it
RagGeneralFallaSinTry ==
    /\ RagMarco
    /\ rag_eventos' = rag_eventos \cup {"general_falla"}
    /\ rag_pc = "general"
    /\ rag_pc' = "raised"
    /\ UNCHANGED << pregunta, resultados_final, rag_ret >>

\* line 171 raises: caught at line 188
RagGeneralFalla ==
    /\ RagMarco
    /\ rag_eventos' = rag_eventos \cup {"general_falla"}
    /\ rag_pc = "general"
    /\ rag_ret' = << <<"error_rag">> >>
    /\ rag_pc' = "ret"
    /\ UNCHANGED << pregunta, resultados_final >>

\* lines 180-186
RagFormatear ==
    /\ RagMarco
    /\ UNCHANGED rag_eventos
    /\ rag_pc = "formatear"
    /\ rag_ret' = Contexto(resultados_final)
    /\ rag_pc' = "ret"
    /\ resultados_final' = <<>>
    /\ UNCHANGED pregunta

\* ------------------------------------------- ejecutar_validacion_medica
nombres_buscar == NombresBuscar(farmaco)

\* PASO 1-3 and lines 161-177
Extraer ==
    /\ modo = "validacion" /\ pc = "inicio"
    /\ farmaco' = ExtraerFarmaco(texto_medico)
    /\ dosis_mg_kg' = ExtraerDosisMgKg(texto_medico)
    /\ dosis_absoluta' = ExtraerDosisAbsoluta(texto_medico)
    /\ frecuencia' = ExtraerFrecuencia(texto_medico)
    /\ idx' = 1
    /\ mejor_evidencia' = <<>>
    /\ respuestas' = <<>>
    /\ pc' = "consultar"
    /\ UNCHANGED << entrada, evidencia_texto, veredicto, dosis_calculada, resultado,
                    rag_vars, raw, par, local, otros >>

\* lines 178-180: the next name variant is asked of the RAG tool
Consultar ==
    /\ modo = "validacion" /\ pc = "consultar"
    /\ pregunta' = << <<"nombre", nombres_buscar[idx]>> >>
    /\ rag_pc' = "inicio"
    /\ rag_eventos' = {}
    /\ pc' = "esperando"
    /\ UNCHANGED << entrada, extraidos, idx, mejor_evidencia, evidencia_texto, veredicto,
                    dosis_calculada, resultado, resultados_final, rag_ret, raw, par, local, otros,
                    respuestas >>

\* line 184: the variant asked, or the drug, is in the evidence
Relevante(nombre, f, ev) ==
    EnEvidencia(Lower(nombre), ev) \/ EnEvidencia(Lower(f), ev)

\* mejor_evidencia when every answer replaces the one kept
MejorEvidenciaUltima(mejor, nombre, f, ev) ==
    IF Relevante(nombre, f, ev) THEN ev
    ELSE ev

\* lines 184-189: mejor_evidencia after one answer
MejorEvidencia(mejor, nombre, f, ev) ==
    IF Relevante(nombre, f, ev) THEN ev
    ELSE IF mejor = <<>> THEN ev
    ELSE mejor

\* lines 181-191: the answer is taken; the loop ends on a relevant answer
\* or after the last variant
Recibir ==
    /\ modo = "validacion" /\ pc = "esperando" /\ rag_pc = "ret"
    /\ LET nombre == nombres_buscar[idx]
           mejor  == MejorEvidencia(mejor_evidencia, nombre, farmaco, rag_ret)
       IN  /\ mejor_evidencia' = mejor
           /\ IF Relevante(nombre, farmaco, rag_ret) \/ idx = Len(nombres_buscar)
              THEN /\ evidencia_texto' = mejor
                   /\ pc' = "decidir"
                   /\ idx' = idx
              ELSE /\ pc' = "consultar"
                   /\ idx' = idx + 1
                   /\ UNCHANGED evidencia_texto
    /\ respuestas' = Append(respuestas, rag_ret)
    /\ rag_pc' = "idle" /\ rag_ret' = <<>> /\ pregunta' = <<>> /\ rag_eventos' = {}
    /\ UNCHANGED << entrada, extraidos, veredicto, dosis_calculada, resultado,
                    resultados_final, raw, par, local, otros >>

\* PASO 5 and PASO 6; float(peso_paciente) of line 271 is outside any try
Decidir ==
    /\ modo = "validacion" /\ pc = "decidir"
    /\ LET max_guia == ExtraerDosisMax(evidencia_texto)
           d == Decision(farmaco, evidencia_texto, max_guia, dosis_mg_kg,
                         dosis_absoluta, peso_paciente)
       IN  /\ dosis_max_guia' = max_guia
           /\ IF DecisionRaises(evidencia_texto, max_guia, dosis_mg_kg, peso_paciente)
              THEN /\ pc' = "raised"
                   /\ UNCHANGED << es_aij, decision, razon >>
              ELSE /\ pc' = "calcular"
                   /\ es_aij' = d.es_aij
                   /\ decision' = d.decision
                   /\ razon' = d.razon
    /\ UNCHANGED << entrada, extraidos, idx, mejor_evidencia, evidencia_texto,
                    dosis_calculada, resultado, rag_vars, raw, par, local, otros, respuestas >>

\* PASO 7 with a running total kept from one call to the next
CalcularAcumulando ==
    /\ modo = "validacion" /\ pc = "calcular"
    /\ IF DosisTotalRaises(dosis_mg_kg, peso_paciente)
       THEN /\ pc' = "raised"
            /\ UNCHANGED dosis_calculada
       ELSE /\ pc' = "estructurar"
            /\ dosis_calculada' =
                 LET d == DosisTotal(dosis_mg_kg, dosis_absoluta, peso_paciente)
                 IN  IF prev.hay /\ Truthy(prev.dosis) /\ Truthy(d)
                     THEN Some(d[1] + prev.dosis[1])
                     ELSE d
    /\ UNCHANGED << entrada, extraidos, idx, mejor_evidencia, evidencia_texto, veredicto,
                    resultado, rag_vars, raw, par, local, otros, respuestas >>

\* PASO 7; float(peso_paciente) of line 317 is outside any try
Calcular ==
    /\ modo = "validacion" /\ pc = "calcular"
    /\ IF DosisTotalRaises(dosis_mg_kg, peso_paciente)
       THEN /\ pc' = "raised"
            /\ UNCHANGED dosis_calculada
       ELSE /\ pc' = "estructurar"
            /\ dosis_calculada' = DosisTotal(dosis_mg_kg, dosis_absoluta, peso_paciente)
    /\ UNCHANGED << entrada, extraidos, idx, mejor_evidencia, evidencia_texto, veredicto,
                    resultado, rag_vars, raw, par, local, otros, respuestas >>

\* PASO 8
Estructurar ==
    /\ modo = "validacion" /\ pc = "estructurar"
    /\ resultado' = Estructurado(farmaco, peso_paciente, dosis_mg_kg, dosis_absoluta,
                                 frecuencia, es_aij, razon, decision, dosis_calculada,
                                 dosis_max_guia)
    /\ pc' = "done"
    /\ UNCHANGED << entrada, extraidos, idx, mejor_evidencia, evidencia_texto, veredicto,
                    dosis_calculada, rag_vars, raw, par, local, otros, respuestas >>

\* ------------------------------------------------- run_tripulacion.main
MMarco == UNCHANGED << modo, corpus, extraidos, idx, mejor_evidencia, evidencia_texto,
                       veredicto, dosis_calculada, par, local, otros, respuestas >>

\* lines 89-103: stdin holds a JSON object; the RAG tool is asked about the text
MLeer ==
    /\ modo = "cli" /\ pc = "inicio"
    /\ pregunta' = texto_medico
    /\ rag_pc' = "inicio"
    /\ rag_eventos' = {}
    /\ pc' = "m_esperando"
    /\ MMarco
    /\ UNCHANGED << texto_medico, peso_paciente, resultado, resultados_final, rag_ret, raw >>

\* lines 42-48, 89-103: stdin is empty or is not JSON; payload is {} and the
\* defaults "" and 0 are used
MLeerVacio ==
    /\ modo = "cli" /\ pc = "inicio"
    /\ texto_medico' = <<>>
    /\ peso_paciente' = [tipo |-> "float", v |-> 0]
    /\ pregunta' = <<>>
    /\ rag_pc' = "inicio"
    /\ rag_eventos' = {}
    /\ pc' = "m_esperando"
    /\ MMarco
    /\ UNCHANGED << resultado, resultados_final, rag_ret, raw >>

\* lines 46, 90: stdin holds JSON that is not an object; payload.get raises
MLeerNoDict ==
    /\ modo = "cli" /\ pc = "inicio"
    /\ pc' = "raised"
    /\ MMarco
    /\ UNCHANGED << texto_medico, peso_paciente, resultado, rag_vars, raw >>

\* lines 108-137: the prompt is sent and the reply rendered as text
MLlamarLLM ==
    /\ modo = "cli" /\ pc = "m_esperando" /\ rag_pc = "ret"
    /\ \E r \in Raws : raw' = r
    /\ rag_pc' = "idle" /\ rag_ret' = <<>> /\ pregunta' = <<>> /\ rag_eventos' = {}
    /\ pc' = "m_parsear"
    /\ MMarco
    /\ UNCHANGED << texto_medico, peso_paciente, resultado, resultados_final >>

\* line 133 raises (the model server is unreachable): main has no try
MLLMFalla ==
    /\ modo = "cli" /\ pc = "m_esperando" /\ rag_pc = "ret"
    /\ rag_pc' = "idle" /\ rag_ret' = <<>> /\ pregunta' = <<>> /\ rag_eventos' = {}
    /\ pc' = "raised"
    /\ MMarco
    /\ UNCHANGED << texto_medico, peso_paciente, resultado, resultados_final, raw >>

\* lines 138-196
MParsear ==
    /\ modo = "cli" /\ pc = "m_parsear"
    /\ LET data == ParsearData(raw)
       IN  IF EsErrorLLM(data)
           THEN /\ resultado' = ErrorPayload(raw)
                /\ pc' = "done"
           ELSE IF FloatRaises(peso_paciente)
           THEN /\ pc' = "raised"
                /\ UNCHANGED resultado
           ELSE /\ resultado' = ResultadoLLM(data, peso_paciente.v)
                /\ pc' = "done"
    /\ MMarco
    /\ UNCHANGED << texto_medico, peso_paciente, rag_vars, raw >>

\* ------------------------------------------------------ specification
Next ==
    \/ Extraer \/ Consultar \/ Recibir \/ Decidir \/ Calcular \/ Estructurar
    \/ RagSinDB \/ RagCargaFalla \/ RagCargaOK
    \/ RagFichaHits \/ RagFichaVacia \/ RagFichaFalla
    \/ RagGeneralHits \/ RagGeneralVacia \/ RagGeneralFalla
    \/ RagFormatear
    \/ MLeer \/ MLeerVacio \/ MLeerNoDict \/ MLlamarLLM \/ MLLMFalla \/ MParsear

Spec == Init /\ [][Next]_vars

\* ---------------------------------------------- a pair of calls
\* ejecutar_validacion_medica is called again, for the same patient and
\* against the same store, with another prescription; prev keeps what the
\* call before worked on and returned.
TextosPar == { << <<"nombre", "ibuprofeno">> >> \o d : d \in DosisPartes }

PesosPar == { [tipo |-> "float", v |-> MaxPeso], [tipo |-> "None", v |-> 0] }

CorporaPar ==
    { {},
      {Doc("guia aij.pdf", <<"hasta", MaxLimite>>)},
      {Doc("ficha tecnica ibuprofeno.pdf", <<"hasta", MaxLimite>>)},
      {Doc("guia aij.pdf", <<"hasta", MaxLimite>>), Doc("guia aij.pdf", <<"contraindicado">>)} }

InitPar ==
    /\ modo = "validacion"
    /\ texto_medico \in TextosPar
    /\ peso_paciente \in PesosPar
    /\ corpus \in CorporaPar
    /\ Locales
    /\ SinPlan /\ SinOtros
    /\ prev = NoLlamada /\ llamadas = 1

Rellamar ==
    /\ modo = "validacion" /\ pc = "done"
    /\ llamadas < MaxLlamadas
    /\ llamadas' = llamadas + 1
    /\ prev' = [hay |-> TRUE, texto |-> texto_medico, farmaco |-> farmaco,
                respuestas |-> respuestas, evidencia |-> evidencia_texto,
                dosis |-> dosis_calculada, max_guia |-> dosis_max_guia,
                decision |-> resultado.decision, resultado |-> resultado]
    /\ texto_medico' \in TextosPar
    /\ pc' = "inicio"
    /\ farmaco' = "" /\ dosis_mg_kg' = None /\ dosis_absoluta' = None
    /\ frecuencia' = [texto |-> "", horas |-> None]
    /\ idx' = 0 /\ mejor_evidencia' = <<>> /\ evidencia_texto' = <<>>
    /\ dosis_max_guia' = None /\ es_aij' = TRUE /\ decision' = "APROBADA" /\ razon' = ""
    /\ dosis_calculada' = None
    /\ resultado' = NoResultado
    /\ respuestas' = <<>>
    /\ UNCHANGED << modo, peso_paciente, corpus, rag_vars, raw, local, otros >>

NextPar ==
    \/ Extraer \/ Consultar \/ Recibir \/ Decidir \/ Calcular \/ Estructurar
    \/ RagSinDB \/ RagCargaFalla \/ RagCargaOK
    \/ RagFichaHits \/ RagFichaVacia \/ RagFichaFalla
    \/ RagGeneralHits \/ RagGeneralVacia \/ RagGeneralFalla
    \/ RagFormatear
    \/ Rellamar

SpecPar == InitPar /\ [][NextPar]_vars

\* ------------------------------- two calls that differ in unit or frequency
\* ejecutar_validacion_medica called twice: the second prescription differs
\* from the first in its frequency words at most, and the guideline of the
\* second call states the same number in a phrase of another unit class at
\* most ("hasta n mg", "n mg/kg/día", "máximo n mg/semana").
ClasesLimite == {"hasta", "mg_kg_dia", "maximo_semana"}

FuentesDos == {"guia aij.pdf", "ficha tecnica ibuprofeno.pdf"}

CorporaDos ==
    {{}} \cup { {Doc(f, <<c, n>>)} : f \in FuentesDos, c \in ClasesLimite, n \in 1..MaxLimite }

DosisDos == { << <<"mg_kg", k>> >> : k \in 1..MaxMgKg } \cup { << <<"mg", MaxMg>> >> }

FrecuenciasDos == { <<>>, << <<"semanal">> >>, << <<"cada_h", 8>> >> }

TextosDos == { << <<"nombre", "ibuprofeno">> >> \o d \o f : d \in DosisDos, f \in FrecuenciasDos }

\* a text without its frequency words, a corpus without its unit classes
SinFrecuencia(texto) ==
    SelectSeq(texto, LAMBDA ph : ph[1] \notin {"semanal", "diario", "diaria", "cada_h"})

SinClase(docs) == { [source |-> d.source, limite |-> d.content[1][2]] : d \in docs }

InitDos ==
    /\ modo = "validacion"
    /\ texto_medico \in TextosDos
    /\ peso_paciente = [tipo |-> "float", v |-> MaxPeso]
    /\ corpus \in CorporaDos
    /\ Locales
    /\ SinPlan /\ SinOtros
    /\ prev = NoLlamada /\ llamadas = 1

RellamarVariante ==
    /\ modo = "validacion" /\ pc = "done"
    /\ llamadas < MaxLlamadas
    /\ llamadas' = llamadas + 1
    /\ prev' = [hay |-> TRUE, texto |-> texto_medico, farmaco |-> farmaco,
                respuestas |-> respuestas, evidencia |-> evidencia_texto,
                dosis |-> dosis_calculada, max_guia |-> dosis_max_guia,
                decision |-> resultado.decision, resultado |-> resultado]
    /\ texto_medico' \in { t \in TextosDos : SinFrecuencia(t) = SinFrecuencia(texto_medico) }
    /\ corpus' \in { c \in CorporaDos : SinClase(c) = SinClase(corpus) }
    /\ pc' = "inicio"
    /\ farmaco' = "" /\ dosis_mg_kg' = None /\ dosis_absoluta' = None
    /\ frecuencia' = [texto |-> "", horas |-> None]
    /\ idx' = 0 /\ mejor_evidencia' = <<>> /\ evidencia_texto' = <<>>
    /\ dosis_max_guia' = None /\ es_aij' = TRUE /\ decision' = "APROBADA" /\ razon' = ""
    /\ dosis_calculada' = None
    /\ resultado' = NoResultado
    /\ respuestas' = <<>>
    /\ UNCHANGED << modo, peso_paciente, rag_vars, raw, local, otros >>

NextDos ==
    \/ Extraer \/ Consultar \/ Recibir \/ Decidir \/ Calcular \/ Estructurar
    \/ RagSinDB \/ RagCargaFalla \/ RagCargaOK
    \/ RagFichaHits \/ RagFichaVacia \/ RagFichaFalla
    \/ RagGeneralHits \/ RagGeneralVacia \/ RagGeneralFalla
    \/ RagFormatear
    \/ RellamarVariante

SpecDos == InitDos /\ [][NextDos]_vars

\* ------------------------------------- the extraction, over many texts
\* ejecutar_validacion_medica on prescriptions of up to MaxFrases phrases:
\* drug names in either case, other words, and frequency phrases.
FrasesExt == { <<"nombre", "naproxeno">>, <<"nombre", "Ibuprofeno">>,
               <<"nombre", "metotrexate">>, <<"nombre", "tomar">>,
               <<"nombre", "Aspirina">>, <<"cada_h", 8>>, <<"semanal">>, <<"diaria">> }

TextosExt == UNION { [1..n -> FrasesExt] : n \in 0..MaxFrases }

CorporaExt == { {}, {Doc("ficha tecnica ibuprofeno.pdf", <<"mg_kg_dia", MaxLimite>>)} }

InitExt ==
    /\ modo = "validacion"
    /\ texto_medico \in TextosExt
    /\ peso_paciente = [tipo |-> "float", v |-> MaxPeso]
    /\ corpus \in CorporaExt
    /\ Locales
    /\ SinPlan /\ SinOtros
    /\ prev = NoLlamada /\ llamadas = 1

NextExt ==
    \/ Extraer \/ Consultar \/ Recibir \/ Decidir \/ Calcular \/ Estructurar
    \/ RagSinDB \/ RagCargaFalla \/ RagCargaOK
    \/ RagFichaHits \/ RagFichaVacia \/ RagFichaFalla
    \/ RagGeneralHits \/ RagGeneralVacia \/ RagGeneralFalla
    \/ RagFormatear

SpecExt == InitExt /\ [][NextExt]_vars

\* ------------------------------------ ConsultarGuiaRAGTool._run on its own
\* The tool is called with a question, against a store that may hold more
\* documents of one reference file than any search returns.
CorpusFicha == { Doc("ficha tecnica ibuprofeno.pdf", <<"hasta", n>>) : n \in 0..6 }

CorporaRag == { {}, {Doc("guia aij.pdf", <<"hasta", MaxLimite>>)}, CorpusFicha }

PreguntasRag == { << <<"nombre", "ibuprofeno">> >>, << <<"nombre", "Ibuprofen">> >>,
                  << <<"nombre", "MTX">> >>, << <<"nombre", "naproxeno">> >>, <<>> }

InitRag ==
    /\ modo = "herramienta"
    /\ texto_medico = <<>>
    /\ peso_paciente = [tipo |-> "None", v |-> 0]
    /\ corpus \in CorporaRag
    /\ pc = "inicio"
    /\ farmaco = "" /\ dosis_mg_kg = None /\ dosis_absoluta = None
    /\ frecuencia = [texto |-> "", horas |-> None]
    /\ idx = 0 /\ mejor_evidencia = <<>> /\ evidencia_texto = <<>>
    /\ dosis_max_guia = None /\ es_aij = TRUE /\ decision = "APROBADA" /\ razon = ""
    /\ dosis_calculada = None
    /\ resultado = NoResultado
    /\ SinPlan /\ SinOtros
    /\ rag_pc = "inicio" /\ pregunta \in PreguntasRag
    /\ resultados_final = <<>> /\ rag_ret = <<>>
    /\ rag_eventos = {}
    /\ raw = <<>>
    /\ respuestas = <<>>
    /\ prev = NoLlamada /\ llamadas = 1

NextRag ==
    \/ RagSinDB \/ RagCargaFalla \/ RagCargaOK
    \/ RagFichaHits \/ RagFichaVacia \/ RagFichaFalla
    \/ RagGeneralHits \/ RagGeneralVacia \/ RagGeneralFalla
    \/ RagFormatear

SpecRag == InitRag /\ [][NextRag]_vars

\* ------------------------------------------------- _validar_plan_local
\* The rule-based validator of the visit screen.  A plan is a text whose
\* phrases are words, "d mg/m2" (kind "mg_m2"), "d mg" (kind "mg") and the
\* frequency words; the numbers of a plan are in tenths, as "12.5" or "12,5"
\* is written, and bsa is in hundredths of m2.
MAX_DOSE_MG_M2 == 15

mtx_aliases == << "methotrexate", "metotrexate", "metotrexato", "mtx" >>

\* alias in texto, for some alias of mtx_aliases
EsMetotrexato(plan) ==
    \E k \in 1..Len(mtx_aliases) : EnTexto(mtx_aliases[k], plan)

\* plan_texto.split()[0], or "-"; a number is rendered as "numero"
PrimerToken(plan) ==
    IF plan = <<>> THEN "-"
    ELSE IF plan[1][1] = "nombre" THEN plan[1][2]
    ELSE IF plan[1][1] \in {"mg", "mg_m2"} THEN "numero"
    ELSE plan[1][1]

\* any(w in texto for w in ["week", "semanal", "semana"])
FrecuenciaPlan(plan) ==
    IF \E i \in 1..Len(plan) : plan[i][1] \in {"weekly", "semanal"}
    THEN "weekly" ELSE "-"

\* round(num / den, 0) for den > 0: the integers nearest to num / den.  At a
\* tie the float that round() sees lies on either side of the half, so both
\* neighbours are possible.
Redondeos(num, den) ==
    LET q == num \div den
        r == num % den
    IN  IF 2 * r < den THEN {q}
        ELSE IF 2 * r > den THEN {q + 1}
        ELSE {q, q + 1}

\* lines 109-134 and 151-177: the decision on the dose per m2, in tenths
DecisionPlan(dosis_m2) ==
    IF dosis_m2 <= MAX_DOSE_MG_M2 * 10
    THEN [decision |-> "Approved", razon |-> "within_guidelines"]
    ELSE [decision |-> "Warning", razon |-> "excessive_dosage"]

\* lines 84-92: no alias of methotrexate in the plan
PlanSinMtx(plan) ==
    [ decision |-> "Approved", farmaco |-> PrimerToken(plan),
      dosis_prescrita |-> None, dosis_total |-> None, frecuencia |-> "-",
      razon |-> "no_methotrexate" ]

\* lines 135-141: methotrexate and no dose that can be read
PlanSinDosis ==
    [ decision |-> "Approved", farmaco |-> "Methotrexate",
      dosis_prescrita |-> None, dosis_total |-> None, frecuencia |-> "-",
      razon |-> "dose_not_parsed" ]

\* lines 99-134: a dose in plain mg; dosis_m2 = round(dosis_total / bsa, 1), or
\* 0 when bsa is not positive
PlanMg(plan, total, b) ==
    { [ decision |-> DecisionPlan(m2).decision, farmaco |-> "Methotrexate",
        dosis_prescrita |-> Some([mg |-> Some(total), m2 |-> m2]),
        dosis_total |-> Some(total), frecuencia |-> FrecuenciaPlan(plan),
        razon |-> DecisionPlan(m2).razon ]
      : m2 \in IF b > 0 THEN Redondeos(100 * total, b) ELSE {0} }

\* the dose per m2 path with the total dose compared with the limit
PlanM2ComparaTotal(plan, m2, b) ==
    { [ decision |-> DecisionPlan(total).decision, farmaco |-> "Methotrexate",
        dosis_prescrita |-> Some([mg |-> None, m2 |-> m2]),
        dosis_total |-> Some(total), frecuencia |-> FrecuenciaPlan(plan),
        razon |-> DecisionPlan(total).razon ]
      : total \in Redondeos(m2 * b, 100) }

\* lines 144-177: a dose per m2; dosis_total = round(dosis_m2 * bsa, 1)
PlanM2(plan, m2, b) ==
    { [ decision |-> DecisionPlan(m2).decision, farmaco |-> "Methotrexate",
        dosis_prescrita |-> Some([mg |-> None, m2 |-> m2]),
        dosis_total |-> Some(total), frecuencia |-> FrecuenciaPlan(plan),
        razon |-> DecisionPlan(m2).razon ]
      : total \in Redondeos(m2 * b, 100) }

\* _validar_plan_local(plan_texto, bsa): the records it can return
ValidarPlan(plan, b) ==
    IF ~EsMetotrexato(plan) THEN { PlanSinMtx(plan) }
    ELSE IF Buscar({"mg_m2"}, plan) # 0
    THEN PlanM2(plan, plan[Buscar({"mg_m2"}, plan)][2], b)
    ELSE IF Buscar({"mg"}, plan) # 0
    THEN PlanMg(plan, plan[Buscar({"mg"}, plan)][2], b)
    ELSE { PlanSinDosis }

\* the call, as one step
ValidarPlanLocal ==
    /\ modo = "local" /\ pc = "inicio"
    /\ res_local' \in ValidarPlan(plan_texto, bsa)
    /\ pc' = "done"
    /\ UNCHANGED << entrada, extraidos, idx, mejor_evidencia, evidencia_texto, veredicto,
                    dosis_calculada, resultado, rag_vars, raw, par, respuestas,
                    plan_texto, bsa, otros >>

\* the plans: a word or none, then a dose or none, then a frequency or none
NombresPlan == { <<>> } \cup { << <<"nombre", w>> >> :
                   w \in {"methotrexate", "Metotrexato", "MTX", "ibuprofeno"} }

DecimasPlan == { 10 * n + f : n \in 0..MaxDosisPlan, f \in {0, 5} }

DosisEnPlan == { <<>> } \cup { << <<"mg_m2", d>> >> : d \in DecimasPlan }
                       \cup { << <<"mg", d>> >> : d \in DecimasPlan }
                       \cup { << <<"mg", 10 * MaxDosisPlan>>, <<"mg_m2", d>> >> :
                                d \in {10 * MAX_DOSE_MG_M2, 10 * MAX_DOSE_MG_M2 + 5} }

FrecuenciasPlan == { <<>>, << <<"weekly">> >>, << <<"semanal">> >> }

PlanesLocal == { n \o d \o f : n \in NombresPlan, d \in DosisEnPlan, f \in FrecuenciasPlan }

InitLocal ==
    /\ modo = "local"
    /\ texto_medico = <<>>
    /\ peso_paciente = [tipo |-> "None", v |-> 0]
    /\ corpus = {}
    /\ Locales
    /\ plan_texto \in PlanesLocal
    /\ bsa \in 0..MaxBsa
    /\ res_local = NoResLocal
    /\ SinOtros
    /\ prev = NoLlamada /\ llamadas = 1

NextLocal == ValidarPlanLocal

SpecLocal == InitLocal /\ [][NextLocal]_vars

\* ------------------------------------------------- /procesar-seguro
\* procesar_receta: AgenteEstructurador.estructurar_texto, then
\* AgenteAuditor.validar_pauta.  A medicine is [nombre, dosis, dosis_calculada]
\* with nombre an Optional (the key may be missing) and dosis a phrase
\* <<"mg_kg", n>> or <<"mg", n>>.
Medicina(nombre, dosis) == [nombre |-> nombre, dosis |-> dosis, dosis_calculada |-> None]

\* structurer.py:72-110: dosis_calculada of one item for a weight > 0
CalcularItem(item, peso) ==
    IF item.dosis[1] = "mg_kg"
    THEN [item EXCEPT !.dosis_calculada = Some(item.dosis[2] * peso)]
    ELSE IF item.dosis_calculada = None
    THEN [item EXCEPT !.dosis_calculada = Some(item.dosis[2])]
    ELSE item

\* AgenteMatematico.calcular_dosis_exactas
calcular_dosis_exactas(pauta, peso) ==
    IF peso <= 0 THEN pauta
    ELSE [pauta EXCEPT
            !.claves = @ \cup {"tratamiento_secuencial"},
            !.tratamiento_secuencial =
                [i \in 1..Len(@) |-> CalcularItem(@[i], peso)]]

\* what json.loads gives for a reply of the structurer's model: an object
\* that holds "tratamiento_secuencial", "lista_medicamentos", both or neither
ItemsIA == { Medicina(Some(n), d) : n \in {"Ibuprofeno", "Metotrexato"},
                                    d \in {<<"mg_kg", 1>>, <<"mg", MaxMg>>} }

ListasIA == UNION { [1..n -> ItemsIA] : n \in 0..MaxMeds }

ListasMedIA == { << Medicina(Some("Ibuprofeno"), <<"mg", MaxMg>>) >>,
                 << Medicina(None, <<"mg", MaxMg>>) >> }

DatosIA ==
    { [claves |-> {"tratamiento_secuencial"}, tratamiento_secuencial |-> ts,
       lista_medicamentos |-> <<>>] : ts \in ListasIA }
    \cup { [claves |-> {"tratamiento_secuencial", "lista_medicamentos"},
            tratamiento_secuencial |-> ts, lista_medicamentos |-> lm]
            : ts \in { q \in ListasIA : Len(q) <= 1 }, lm \in ListasMedIA }
    \cup { [claves |-> {}, tratamiento_secuencial |-> <<>>, lista_medicamentos |-> <<>>] }

\* structurer.py:203-205: the record of the except branch
PautaError == [ claves |-> {"tratamiento_secuencial", "error"},
                tratamiento_secuencial |-> <<>>, lista_medicamentos |-> <<>> ]

\* main.py:98: estructurar_texto; the model replies with an object
EstructurarTexto ==
    /\ modo = "procesar" /\ pc = "inicio"
    /\ \E d \in DatosIA : pauta_json' = calcular_dosis_exactas(d, peso_paciente.v)
    /\ pc' = "auditar"
    /\ UNCHANGED << modo, nucleo, fuera_servicio, raw, local, medicamentos, analisis_seguridad >>

\* main.py:98: estructurar_texto; llm.invoke or json.loads raises
EstructurarFalla ==
    /\ modo = "procesar" /\ pc = "inicio"
    /\ pauta_json' = PautaError
    /\ pc' = "auditar"
    /\ UNCHANGED << modo, nucleo, fuera_servicio, raw, local, medicamentos, analisis_seguridad >>

\* auditor.py:81: pauta_json.get('lista_medicamentos', [])
ListaAuditada(pauta) ==
    IF "lista_medicamentos" \in pauta.claves THEN pauta.lista_medicamentos ELSE <<>>

\* auditor.py:81: m['nombre'] raises KeyError
NombreRaises(pauta) ==
    \E i \in 1..Len(ListaAuditada(pauta)) : ListaAuditada(pauta)[i].nombre = None

\* auditor.py:81: [m['nombre'] for m in ...]
NombresAuditados(pauta) ==
    [i \in 1..Len(ListaAuditada(pauta)) |-> ListaAuditada(pauta)[i].nombre[1]]

\* auditor.py:78-93: the names are taken and the store is searched
AudBuscar ==
    /\ modo = "procesar" /\ pc = "auditar"
    /\ IF NombreRaises(pauta_json)
       THEN /\ pc' = "raised"
            /\ UNCHANGED medicamentos
       ELSE /\ medicamentos' = NombresAuditados(pauta_json)
            /\ pc' = "aud_llm"
    /\ UNCHANGED << modo, nucleo, fuera_servicio, raw, local, pauta_json, analisis_seguridad >>

\* auditor.py:92: similarity_search raises; nothing catches it
AudBuscarFalla ==
    /\ modo = "procesar" /\ pc = "auditar"
    /\ ~NombreRaises(pauta_json)
    /\ medicamentos' = NombresAuditados(pauta_json)
    /\ pc' = "raised"
    /\ UNCHANGED << modo, nucleo, fuera_servicio, raw, local, pauta_json, analisis_seguridad >>

\* the tokens of a reply of the auditor's model
MiembrosAud == {"aprobado=true", "aprobado=false"}

TokensAud == {"{", "}", "txt"} \cup MiembrosAud

RespuestasAud == UNION { [1..n -> TokensAud] : n \in 0..MaxResp }

\* respuesta[inicio:fin] with inicio = respuesta.find('{') and
\* fin = respuesta.rfind('}') + 1; a find of -1 starts the slice at the last
\* character
TrozoAud(respuesta) ==
    LET inicio == Find(respuesta, "{")
        fin    == RFind(respuesta, "}")
        desde  == IF inicio = 0 THEN Len(respuesta) ELSE inicio
    IN  IF desde >= 1 /\ desde <= fin THEN SubSeq(respuesta, desde, fin) ELSE <<>>

\* json.loads(trozo) succeeds
EsJSONAud(q) == /\ Len(q) >= 2
                /\ q[1] = "{"
                /\ q[Len(q)] = "}"
                /\ \A i \in 2..(Len(q)-1) : q[i] \in MiembrosAud

\* the object json.loads gives: of a repeated key the last value stays
VeredictoDe(q) ==
    LET pos == { i \in 2..(Len(q)-1) : q[i] \in MiembrosAud }
    IN  IF pos = {} THEN [claves |-> {}, aprobado |-> FALSE, alertas |-> "", debug |-> ""]
        ELSE [claves |-> {"aprobado"},
              aprobado |-> q[CHOOSE i \in pos : \A j \in pos : j <= i] = "aprobado=true",
              alertas |-> "", debug |-> ""]

\* auditor.py:135-137: the verdict of the except branch; debug is str(e)
VeredictoError(e) == [claves |-> {"aprobado", "alertas", "debug"},
                      aprobado |-> FALSE, alertas |-> "Error tecnico", debug |-> e]

\* auditor.py:129-137 on a reply
ParsearVeredicto(respuesta) ==
    IF EsJSONAud(TrozoAud(respuesta)) THEN VeredictoDe(TrozoAud(respuesta))
    ELSE VeredictoError("JSONDecodeError")

\* auditor.py:129-137: the model replies
AudInvocar ==
    /\ modo = "procesar" /\ pc = "aud_llm"
    /\ \E r \in RespuestasAud :
          /\ raw' = r
          /\ analisis_seguridad' = ParsearVeredicto(r)
    /\ pc' = "done"
    /\ UNCHANGED << modo, nucleo, fuera_servicio, local, pauta_json, medicamentos >>

\* auditor.py:130, 135-137: llm.invoke raises
AudLLMFalla ==
    /\ modo = "procesar" /\ pc = "aud_llm"
    /\ analisis_seguridad' = VeredictoError("llm")
    /\ pc' = "done"
    /\ UNCHANGED << modo, nucleo, fuera_servicio, raw, local, pauta_json, medicamentos >>

InitServicio ==
    /\ modo = "procesar"
    /\ texto_medico = <<>>
    /\ peso_paciente \in { [tipo |-> "float", v |-> n] : n \in {0, MaxPeso} }
    /\ corpus = {}
    /\ Locales
    /\ SinPlan
    /\ SinServicio /\ SinDisco /\ SinPanel /\ SinBot /\ SinVisita /\ SinSesion
    /\ prev = NoLlamada /\ llamadas = 1

NextServicio ==
    \/ EstructurarTexto \/ EstructurarFalla
    \/ AudBuscar \/ AudBuscarFalla
    \/ AudInvocar \/ AudLLMFalla

SpecServicio == InitServicio /\ [][NextServicio]_vars

\* ------------------------------------------------- data_manager
\* guardar_historial and guardar_paciente, each as the three steps another
\* call can come between: the file is read, it is opened for writing (which
\* empties it), and json.dump writes the dict.  Nothing locks the files.
\* data_manager.py:75-87: cargar_json_seguro; an empty file, or one whose
\* text is not yet whole, reads as {}
cargar_json_seguro(fichero, vacio) == IF fichero.truncado THEN vacio ELSE fichero.db

\* the record a call adds to the history, and the patient a call saves
Registro(h) == [tipo |-> "visita", autor |-> h]

Paciente(id, h) == [id |-> id, numero_historia |-> h, alertas_resueltas |-> {}]

\* a call of guardar_historial(id, registro) or guardar_paciente(paciente) starts
Llamar(h) ==
    /\ modo = "disco"
    /\ hilos[h].pc = "parado"
    /\ \E tipo \in {"historial", "paciente"}, id \in Pacs :
          hilos' = [hilos EXCEPT ![h] = [pc |-> "cargar", tipo |-> tipo, id |-> id,
                                         db |-> <<>>]]
    /\ UNCHANGED << modo, pc, raw, nucleo, local, fuera_disco, file_historial,
                    file_pacientes >>

\* data_manager.py:149-156: the history is read and the record appended
HistorialCargar(h) ==
    /\ modo = "disco"
    /\ hilos[h].pc = "cargar" /\ hilos[h].tipo = "historial"
    /\ LET db == cargar_json_seguro(file_historial, SinHistorial)
       IN  hilos' = [hilos EXCEPT ![h].db =
                        [db EXCEPT ![hilos[h].id] = Append(@, Registro(h))],
                                  ![h].pc = "abrir"]
    /\ UNCHANGED << modo, pc, raw, nucleo, local, fuera_disco, file_historial,
                    file_pacientes >>

\* data_manager.py:159: open(FILE_HISTORIAL, "w")
HistorialAbrir(h) ==
    /\ modo = "disco"
    /\ hilos[h].pc = "abrir" /\ hilos[h].tipo = "historial"
    /\ file_historial' = [file_historial EXCEPT !.truncado = TRUE]
    /\ hilos' = [hilos EXCEPT ![h].pc = "volcar"]
    /\ UNCHANGED << modo, pc, raw, nucleo, local, fuera_disco, file_pacientes >>

\* data_manager.py:160: json.dump(db, f) and the file is closed
HistorialVolcar(h) ==
    /\ modo = "disco"
    /\ hilos[h].pc = "volcar" /\ hilos[h].tipo = "historial"
    /\ file_historial' = Fichero(hilos[h].db)
    /\ hilos' = [hilos EXCEPT ![h].pc = "hecho"]
    /\ UNCHANGED << modo, pc, raw, nucleo, local, fuera_disco, file_pacientes >>

\* data_manager.py:131-132: the patients are read and the patient put in
PacienteCargar(h) ==
    /\ modo = "disco"
    /\ hilos[h].pc = "cargar" /\ hilos[h].tipo = "paciente"
    /\ LET db == cargar_json_seguro(file_pacientes, SinPacientes)
       IN  hilos' = [hilos EXCEPT ![h].db =
                        [db EXCEPT ![hilos[h].id] = Some(Paciente(hilos[h].id, h))],
                                  ![h].pc = "abrir"]
    /\ UNCHANGED << modo, pc, raw, nucleo, local, fuera_disco, file_historial,
                    file_pacientes >>

\* data_manager.py:133: open(FILE_PACIENTES, "w")
PacienteAbrir(h) ==
    /\ modo = "disco"
    /\ hilos[h].pc = "abrir" /\ hilos[h].tipo = "paciente"
    /\ file_pacientes' = [file_pacientes EXCEPT !.truncado = TRUE]
    /\ hilos' = [hilos EXCEPT ![h].pc = "volcar"]
    /\ UNCHANGED << modo, pc, raw, nucleo, local, fuera_disco, file_historial >>

\* data_manager.py:134: json.dump(db, f) and the file is closed
PacienteVolcar(h) ==
    /\ modo = "disco"
    /\ hilos[h].pc = "volcar" /\ hilos[h].tipo = "paciente"
    /\ file_pacientes' = Fichero(hilos[h].db)
    /\ hilos' = [hilos EXCEPT ![h].pc = "hecho"]
    /\ UNCHANGED << modo, pc, raw, nucleo, local, fuera_disco, file_historial >>

\* what is on disk before the calls: a visit of some patients, some patients
HistorialesPrevios ==
    { [p \in Pacs |-> IF p \in S THEN << Registro(0) >> ELSE <<>>] : S \in SUBSET Pacs }

PacientesPrevios ==
    { [p \in Pacs |-> IF p \in S THEN Some(Paciente(p, 0)) ELSE None] : S \in SUBSET Pacs }

InitDisco ==
    /\ modo = "disco"
    /\ texto_medico = <<>>
    /\ peso_paciente = [tipo |-> "None", v |-> 0]
    /\ corpus = {}
    /\ Locales
    /\ SinPlan
    /\ SinServicio
    /\ \E previo \in HistorialesPrevios : file_historial = Fichero(previo)
    /\ \E previo \in PacientesPrevios : file_pacientes = Fichero(previo)
    /\ hilos = [h \in Hilos |-> HiloParado]
    /\ SinPanel /\ SinBot /\ SinVisita /\ SinSesion
    /\ prev = NoLlamada /\ llamadas = 1

NextDisco ==
    \E h \in Hilos :
       \/ Llamar(h)
       \/ HistorialCargar(h) \/ HistorialAbrir(h) \/ HistorialVolcar(h)
       \/ PacienteCargar(h) \/ PacienteAbrir(h) \/ PacienteVolcar(h)

SpecDisco == InitDisco /\ [][NextDisco]_vars

\* ------------------------------------------------- ui_dashboard: alerts
\* The alert types; whether the condition of a type holds (a review or a
\* blood test overdue, no visit for six months) is read from the patient and
\* the history and is an input of generar_alertas.
TiposAlerta == {"oftalmologia", "analitica", "perdido"}

\* an alert id that does not name the month
generar_id_alerta_sin_mes(tipo, hoy) == << tipo, 0 >>

\* ui_dashboard.py:204-207: f"{tipo}_{mes_actual}"
generar_id_alerta(tipo, hoy) == << tipo, hoy >>

\* the keys of paciente["alertas_resueltas"]
IdsResueltos(p) == { r[1] : r \in p.alertas_resueltas }

\* ui_dashboard.py:209-320: generar_alertas
generar_alertas(p, cond, hoy) ==
    { [id |-> generar_id_alerta(t, hoy), tipo |-> t] :
        t \in { u \in cond : generar_id_alerta(u, hoy) \notin IdsResueltos(p) } }

GenerarAlertas ==
    /\ modo = "panel"
    /\ \E cond \in SUBSET TiposAlerta :
          /\ condiciones' = cond
          /\ alertas' = generar_alertas(paciente, cond, mes)
    /\ pc' = "generado"
    /\ UNCHANGED << modo, raw, nucleo, local, fuera_panel, file_pacientes, mes, paciente,
                    marcadas >>

\* ui_dashboard.py:322-328: marcar_alerta_resuelta for an alert that
\* generar_alertas returned; guardar_paciente rewrites the patients file
MarcarAlertaResuelta ==
    /\ modo = "panel"
    /\ \E a \in alertas :
          LET resueltas == { r \in paciente.alertas_resueltas : r[1] # a.id }
                              \cup { << a.id, mes >> }
              p == [paciente EXCEPT !.alertas_resueltas = resueltas]
          IN  /\ paciente' = p
              /\ marcadas' = marcadas \cup { << a.id, mes >> }
              /\ file_pacientes' =
                    Fichero([cargar_json_seguro(file_pacientes, SinPacientes)
                               EXCEPT ![p.id] = Some(p)])
    /\ pc' = "marcado"
    /\ UNCHANGED << modo, raw, nucleo, local, fuera_panel, mes, condiciones, alertas >>

\* the month ends
PasarMes ==
    /\ modo = "panel"
    /\ mes < MaxMes
    /\ mes' = mes + 1
    /\ pc' = "inicio"
    /\ UNCHANGED << modo, raw, nucleo, local, fuera_panel, file_pacientes, paciente,
                    condiciones, alertas, marcadas >>

InitPanel ==
    /\ modo = "panel"
    /\ texto_medico = <<>>
    /\ peso_paciente = [tipo |-> "None", v |-> 0]
    /\ corpus = {}
    /\ Locales
    /\ SinPlan
    /\ SinServicio /\ SinDisco /\ SinPanel /\ SinBot /\ SinVisita /\ SinSesion
    /\ prev = NoLlamada /\ llamadas = 1

NextPanel == GenerarAlertas \/ MarcarAlertaResuelta \/ PasarMes

SpecPanel == InitPanel /\ [][NextPanel]_vars

\* ------------------------------------------------- patient_bot
\* A question is a sequence of words; "x in p" holds when some word of the
\* question, in lower case, contains x.  The keyword lists are those of the
\* source, without the entries of several words.
saludos == {"hello", "hi", "thanks", "hey", "hola", "buenas", "gracias"}

palabras_urgencia == {"blood", "swollen", "swelling", "emergency", "sangre",
                      "hinchado", "ahogo", "urgencia", "pecho"}

palabras_olvido == {"forgot", "missed", "forgotten", "lost", "skipped", "olvide",
                    "olvidado", "perdi", "perdido", "salte", "saltado", "yesterday"}

palabras_alcohol == {"alcohol", "drink", "beer", "wine", "cerveza", "vino", "beber"}

palabras_weather == {"weather", "forecast", "rain", "temperature", "sunny", "lluvia",
                     "clima"}

palabras_medicacion == {"medication", "medicine", "treatment", "medicacion",
                        "medicamento", "tratamiento", "dosis", "pauta", "pastilla"}

palabras_cita == {"appointment", "cita", "revision"}

\* pregunta.lower() on a word of the model
LowerDuda(w) == CASE w = "BLOOD" -> "blood"
                  [] w = "Hola"  -> "hola"
                  [] OTHER       -> w

\* the keywords inside a lower-case word of the model
Dentro(w) == CASE w = "bloody"   -> {"blood"}
               [] w = "sospecho" -> {"pecho"}
               [] w = "drinking" -> {"drink"}
               [] w = "perdido"  -> {"perdido", "perdi"}
               [] w = "olvidado" -> {"olvidado"}
               [] OTHER          -> {w}

\* any(x in p for x in lista)
AlgunaEn(lista, q) == \E i \in 1..Len(q) : Dentro(LowerDuda(q[i])) \cap lista # {}

\* p in [greetings]: the whole question is a greeting
EsSaludo(q) == Len(q) = 1 /\ LowerDuda(q[1]) \in saludos

\* patient_bot.py:236-268: the answer about the current medication, from the
\* last visit: the medicines found in its plan, else the plan, else no plan
RespuestaMedicacion(historial) ==
    IF historial = <<>> \/ historial[Len(historial)].plan = "" THEN "sin_plan"
    ELSE IF historial[Len(historial)].plan = "mtx" THEN "medicacion_actual"
    ELSE "plan_actual"

\* the answer with the missed-dose keywords looked at before the urgency ones
responder_olvido_primero(q, historial) ==
    IF EsSaludo(q) THEN "saludo"
    ELSE IF AlgunaEn(palabras_olvido, q) THEN "dosis_olvidada"
    ELSE IF AlgunaEn(palabras_urgencia, q) THEN "urgencia"
    ELSE IF AlgunaEn(palabras_alcohol, q) THEN "alcohol"
    ELSE IF AlgunaEn(palabras_weather, q) THEN "weather"
    ELSE IF AlgunaEn(palabras_medicacion, q) THEN RespuestaMedicacion(historial)
    ELSE IF AlgunaEn(palabras_cita, q) THEN "cita"
    ELSE "fallback"

\* patient_bot.py:154-281
responder_duda_paciente(q, historial) ==
    IF EsSaludo(q) THEN "saludo"
    ELSE IF AlgunaEn(palabras_urgencia, q) THEN "urgencia"
    ELSE IF AlgunaEn(palabras_olvido, q) THEN "dosis_olvidada"
    ELSE IF AlgunaEn(palabras_alcohol, q) THEN "alcohol"
    ELSE IF AlgunaEn(palabras_weather, q) THEN "weather"
    ELSE IF AlgunaEn(palabras_medicacion, q) THEN RespuestaMedicacion(historial)
    ELSE IF AlgunaEn(palabras_cita, q) THEN "cita"
    ELSE "fallback"

\* the call, as one step
ResponderDuda ==
    /\ modo = "bot" /\ pc = "inicio"
    /\ respuesta_bot' = responder_duda_paciente(duda, historial_paciente)
    /\ pc' = "done"
    /\ UNCHANGED << modo, raw, nucleo, local, fuera_bot, duda, historial_paciente >>

\* the words of the questions, and the histories of the patient who asks
PalabrasDuda == {"Hola", "BLOOD", "bloody", "sospecho", "urgencia", "perdido",
                 "drinking", "rain", "medication", "cita", "dolor"}

Dudas == UNION { [1..n -> PalabrasDuda] : n \in 0..MaxPalabras }

HistorialesBot == { <<>>, << [plan |-> ""] >>, << [plan |-> "mtx"] >>,
                    << [plan |-> "reposo"] >> }

InitBot ==
    /\ modo = "bot"
    /\ texto_medico = <<>>
    /\ peso_paciente = [tipo |-> "None", v |-> 0]
    /\ corpus = {}
    /\ Locales
    /\ SinPlan
    /\ SinServicio /\ SinDisco /\ SinPanel /\ SinVisita /\ SinSesion
    /\ duda \in Dudas
    /\ historial_paciente \in HistorialesBot
    /\ respuesta_bot = ""
    /\ prev = NoLlamada /\ llamadas = 1

NextBot == ResponderDuda

SpecBot == InitBot /\ [][NextBot]_vars

\* ------------------------------------------------- ui_visita: the visit form
\* render_nueva_visita, one action per run of the script that an event of
\* the page starts.  A plan is a text as in _validar_plan_local; the data of
\* step 1 are cut down to the body surface area, in hundredths of m2.  The
\* form saves for patient P_1, the one app.py put in paciente_visita.
PlanesVisita ==
    { <<>>,
      << <<"nombre", "methotrexate">>, <<"mg_m2", 10 * MAX_DOSE_MG_M2 - 50>> >>,
      << <<"nombre", "methotrexate">>, <<"mg_m2", 10 * MAX_DOSE_MG_M2 + 50>> >>,
      << <<"nombre", "methotrexate">>, <<"mg", 20 * MAX_DOSE_MG_M2>> >> }

BsasVisita == {0, 100}

\* lines 464-469: data.get('bsa', 0); the value worked out again from weight
\* and height when it is not positive is the one step 1 had worked out
BsaVal == IF temp_visita_data = None THEN 0 ELSE temp_visita_data[1].bsa

\* app.py:224-228, ir_a_visita: the dashboard opens the form; no key of the
\* form is reset
IrAVisita ==
    /\ ~modo_visita
    /\ modo_visita' = TRUE
    /\ UNCHANGED << modo, pc, raw, nucleo, local, fuera_visita, file_historial,
                    file_pacientes, visita_step, temp_visita_data, plan_final,
                    ia_validacion_hecha, ia_resultado_cache, botones >>

\* app.py:129-133, "Back to Dashboard" in the side bar; a text area that a
\* run does not render loses its state
VolverAlPanel ==
    /\ modo_visita
    /\ modo_visita' = FALSE
    /\ plan_final' = <<>>
    /\ UNCHANGED << modo, pc, raw, nucleo, local, fuera_visita, file_historial,
                    file_pacientes, visita_step, temp_visita_data,
                    ia_validacion_hecha, ia_resultado_cache, botones >>

\* lines 212-216, the cancel button of step 1: the keys are deleted, and
\* lines 194-198 give them their defaults again at the next run
Cancelar ==
    /\ modo_visita /\ visita_step = 1
    /\ modo_visita' = FALSE
    /\ visita_step' = 1 /\ temp_visita_data' = None
    /\ ia_validacion_hecha' = FALSE /\ ia_resultado_cache' = None
    /\ UNCHANGED << modo, pc, raw, nucleo, local, fuera_visita, file_historial,
                    file_pacientes, plan_final, botones >>

\* lines 339-350, "Next step"
SiguientePaso ==
    /\ modo_visita /\ visita_step = 1
    /\ \E b \in BsasVisita : temp_visita_data' = Some([bsa |-> b])
    /\ visita_step' = 2
    /\ UNCHANGED << modo, pc, raw, nucleo, local, fuera_visita, file_historial,
                    file_pacientes, modo_visita, plan_final,
                    ia_validacion_hecha, ia_resultado_cache, botones >>

\* line 457: the text area is drawn in every run of step 2, validated or
\* not; typing in it starts a run that changes nothing else
EditarPlan ==
    /\ modo_visita /\ visita_step = 2
    /\ plan_final' \in PlanesVisita \ {plan_final}
    /\ UNCHANGED << modo, pc, raw, nucleo, local, fuera_visita, file_historial,
                    file_pacientes, modo_visita, visita_step, temp_visita_data,
                    ia_validacion_hecha, ia_resultado_cache, botones >>

\* lines 461-472, "Validate"
Validar ==
    /\ modo_visita /\ visita_step = 2
    /\ \E r \in ValidarPlan(plan_final, BsaVal) : ia_resultado_cache' = Some(r)
    /\ ia_validacion_hecha' = TRUE
    /\ UNCHANGED << modo, pc, raw, nucleo, local, fuera_visita, file_historial,
                    file_pacientes, modo_visita, visita_step, temp_visita_data,
                    plan_final, botones >>

\* line 476: res.get("decision", "Approved") of the cached result
DecisionCache == ia_resultado_cache[1].decision

\* lines 533-535 "Correct prescription" and 542-544 "Edit"
Corregir ==
    /\ modo_visita /\ visita_step = 2 /\ ia_validacion_hecha
    /\ ia_validacion_hecha' = FALSE
    /\ UNCHANGED << modo, pc, raw, nucleo, local, fuera_visita, file_historial,
                    file_pacientes, modo_visita, visita_step, temp_visita_data,
                    plan_final, ia_resultado_cache, botones >>

\* lines 587-595: the record of the visit
NuevaVisita ==
    [ plan_tratamiento |-> plan_final, auditoria_ia |-> ia_resultado_cache,
      bsa |-> BsaVal ]

\* lines 549-602: guardar_paciente with the plan in ultimo_curso_clinico,
\* then guardar_historial with the visit, then the form closes
GuardarVisita(boton) ==
    /\ Len(botones) < MaxVisitas
    /\ file_pacientes' =
          Fichero([cargar_json_seguro(file_pacientes, SinPacientes) EXCEPT
                     !["P_1"] = Some([id |-> "P_1", ultimo_curso_clinico |-> plan_final])])
    /\ file_historial' =
          Fichero([cargar_json_seguro(file_historial, SinHistorial) EXCEPT
                     !["P_1"] = Append(@, NuevaVisita)])
    /\ botones' = Append(botones, boton)
    /\ modo_visita' = FALSE
    /\ plan_final' = <<>>
    /\ UNCHANGED << modo, pc, raw, nucleo, local, fuera_visita, visita_step,
                    temp_visita_data, ia_validacion_hecha, ia_resultado_cache >>

\* lines 536-537, "Save anyway (override)", shown for a Warning
GuardarOverride ==
    /\ modo_visita /\ visita_step = 2 /\ ia_validacion_hecha
    /\ DecisionCache = "Warning"
    /\ GuardarVisita("override")

\* lines 545-546, "CONFIRM AND SAVE", shown for any other decision
ConfirmarYGuardar ==
    /\ modo_visita /\ visita_step = 2 /\ ia_validacion_hecha
    /\ DecisionCache # "Warning"
    /\ GuardarVisita("confirmar")

\* lines 603-607, "Back", shown while no validation is on the screen
Atras ==
    /\ modo_visita /\ visita_step = 2 /\ ~ia_validacion_hecha
    /\ visita_step' = 1
    /\ plan_final' = <<>>
    /\ UNCHANGED << modo, pc, raw, nucleo, local, fuera_visita, file_historial,
                    file_pacientes, modo_visita, temp_visita_data,
                    ia_validacion_hecha, ia_resultado_cache, botones >>

InitVisita ==
    /\ modo = "visita"
    /\ texto_medico = <<>>
    /\ peso_paciente = [tipo |-> "None", v |-> 0]
    /\ corpus = {}
    /\ Locales
    /\ SinPlan
    /\ SinServicio /\ SinDisco /\ SinPanel /\ SinBot /\ SinVisita /\ SinSesion
    /\ prev = NoLlamada /\ llamadas = 1

NextVisita ==
    \/ IrAVisita \/ VolverAlPanel \/ Cancelar \/ SiguientePaso
    \/ EditarPlan \/ Validar \/ Corregir
    \/ GuardarOverride \/ ConfirmarYGuardar \/ Atras

SpecVisita == InitVisita /\ [][NextVisita]_vars

\* ------------------------------------------------- auth: the login
\* app.py runs check_password() at the top of every run and stops when it
\* returns False.  password_correct is the Optional st.session_state holds;
\* pantalla is what the run drew: the login form, the error alone, or the
\* application.  A session is one browser tab; a reload opens a new one.
Usuarios == {"", "admin", "Admin", "medico"}

Claves == {"", "admin", "Admin", "1234"}

\* auth.py:58-103, the three cases of check_password
Pantalla(correcto) ==
    IF correcto = None THEN "login"
    ELSE IF ~correcto[1] THEN "error"
    ELSE "app"

\* what check_password returns in the run that drew the screen
check_password == pantalla = "app"

\* lines 81-82: the text inputs, drawn in case 1 only; typing starts a run
Teclear ==
    /\ pantalla = "login"
    /\ username' \in Usuarios /\ password' \in Claves
    /\ << username', password' >> # << username, password >>
    /\ pantalla' = Pantalla(password_correct)
    /\ UNCHANGED << modo, pc, raw, nucleo, local, fuera_sesion, password_correct,
                    intentos, sesiones >>

\* line 84 and lines 40-54: "Sign in" runs password_entered, then the script
SignIn ==
    /\ pantalla = "login"
    /\ Len(intentos) < MaxIntentos
    /\ intentos' = Append(intentos, << username, password >>)
    /\ IF username = "admin" /\ password = "admin"
       THEN /\ password_correct' = Some(TRUE)
            /\ username' = "" /\ password' = ""
       ELSE /\ password_correct' = Some(FALSE)
            /\ UNCHANGED << username, password >>
    /\ pantalla' = Pantalla(password_correct')
    /\ UNCHANGED << modo, pc, raw, nucleo, local, fuera_sesion, sesiones >>

\* auth.py:106-115 from the "Log out" button of app.py:181
cerrar_sesion ==
    /\ pantalla = "app"
    /\ Len(intentos) < MaxIntentos
    /\ intentos' = Append(intentos, << "logout", "" >>)
    /\ password_correct' = None
    /\ pantalla' = Pantalla(password_correct')
    /\ UNCHANGED << modo, pc, raw, nucleo, local, fuera_sesion, username, password,
                    sesiones >>

\* the page is loaded again: a new session with an empty st.session_state
NuevaSesion ==
    /\ sesiones < MaxSesiones
    /\ sesiones' = sesiones + 1
    /\ password_correct' = None /\ username' = "" /\ password' = ""
    /\ intentos' = <<>>
    /\ pantalla' = Pantalla(password_correct')
    /\ UNCHANGED << modo, pc, raw, nucleo, local, fuera_sesion >>

InitSesion ==
    /\ modo = "login"
    /\ texto_medico = <<>>
    /\ peso_paciente = [tipo |-> "None", v |-> 0]
    /\ corpus = {}
    /\ Locales
    /\ SinPlan
    /\ SinServicio /\ SinDisco /\ SinPanel /\ SinBot /\ SinVisita /\ SinSesion
    /\ prev = NoLlamada /\ llamadas = 1

NextSesion == Teclear \/ SignIn \/ cerrar_sesion \/ NuevaSesion

SpecSesion == InitSesion /\ [][NextSesion]_vars

\* ====================================================== the claims
\* the evidence handed to the decision holds a contraindication phrase
HayContraindicacion ==
    \E i \in 1..Len(evidencia_texto) :
       evidencia_texto[i][1] \in {"contraindicado", "no_indicado", "no_usar"}

\* PASO 6 is behind the call
TrasDecidir == modo = "validacion" /\ pc \in {"calcular", "estructurar", "done", "raised"}

\* ejecutar_validacion_medica has returned a record
Devuelto == modo = "validacion" /\ pc = "done"

\* C1: whenever the evidence matches a contraindication pattern the decision is
\* RECHAZADA, whatever the limit extracted, the dose prescribed and the weight:
\* the contraindication case comes before every other case.
C1_ContraindicacionRechaza ==
    (TrasDecidir /\ HayContraindicacion)
        => /\ decision = "RECHAZADA"
           /\ pc = "done" => resultado.decision = "RECHAZADA"

\* C1 witness: a contraindication together with a dose below the limit extracted
C1_Witness ==
    /\ Devuelto /\ HayContraindicacion
    /\ Truthy(dosis_max_guia) /\ Truthy(dosis_calculada)
    /\ dosis_calculada[1] < dosis_max_guia[1]
    /\ resultado.decision = "RECHAZADA"

\* C2: with no contraindication and a limit extracted, a prescribed dose
\* exactly equal to the limit yields RECHAZADA, not ALERTA and not APROBADA:
\* the comparison is dose >= limit.
C2_DosisEnLimiteRechazada ==
    (Devuelto /\ ~HayContraindicacion /\ dosis_max_guia # None
       /\ dosis_calculada # None /\ dosis_calculada[1] = dosis_max_guia[1])
        => /\ resultado.decision = "RECHAZADA"
           /\ resultado.razon = "dosis_excesiva"

\* C2 witness: a non-zero dose equal to the limit was rejected
C2_Witness ==
    /\ Devuelto /\ ~HayContraindicacion
    /\ Truthy(dosis_max_guia) /\ dosis_calculada = dosis_max_guia
    /\ resultado.decision = "RECHAZADA" /\ resultado.razon = "dosis_excesiva"

\* C3: the record returned says APROBADA only if no contraindication matched,
\* a limit was extracted, the prescribed dose was computed and it is strictly
\* below the limit; the default of line 239 reaches the output on no other path.
C3_AprobadaSoloBajoLimite ==
    (Devuelto /\ resultado.decision = "APROBADA")
        => /\ ~HayContraindicacion
           /\ dosis_max_guia # None
           /\ dosis_calculada # None
           /\ dosis_calculada[1] < dosis_max_guia[1]

\* C3 witness: a call that returned APROBADA
C3_Witness ==
    /\ Devuelto /\ resultado.decision = "APROBADA"
    /\ dosis_calculada # None /\ dosis_max_guia # None

\* C5: with no contraindication and no maximum dose extracted the decision is
\* ALERTA in every case (not-found marker, adapter error, evidence without a
\* threshold, whether or not it names the drug or "artritis").
C5_SinLimiteAlerta ==
    (TrasDecidir /\ ~HayContraindicacion /\ dosis_max_guia = None)
        => /\ decision = "ALERTA"
           /\ pc = "done" => resultado.decision = "ALERTA"

\* C5 witness: evidence that names "artritis" and states no threshold
C5_Witness ==
    /\ Devuelto /\ ~HayContraindicacion /\ dosis_max_guia = None
    /\ razon = "sin_dosis_maxima"
    /\ resultado.decision = "ALERTA"

\* C4: for a fixed drug, evidence and limit with no contraindication the decision
\* is monotone in the prescribed dose: once a dose is RECHAZADA every dose at
\* least as large is RECHAZADA, and the only change as the dose grows is
\* APROBADA -> RECHAZADA, across dose = limit.
C4_MonotonaEnDosis ==
    (/\ Devuelto /\ prev.hay
     /\ prev.farmaco = farmaco /\ prev.evidencia = evidencia_texto
     /\ ~HayContraindicacion
     /\ prev.dosis # None /\ dosis_calculada # None
     /\ prev.dosis[1] <= dosis_calculada[1])
        => /\ prev.decision = "RECHAZADA" => resultado.decision = "RECHAZADA"
           /\ prev.decision # resultado.decision
                => /\ prev.decision = "APROBADA"
                   /\ resultado.decision = "RECHAZADA"
                   /\ prev.dosis[1] < dosis_max_guia[1]
                   /\ dosis_max_guia[1] <= dosis_calculada[1]

\* C4 witness: two calls on the same evidence, the smaller dose approved and the
\* larger one rejected
C4_Witness ==
    /\ Devuelto /\ prev.hay
    /\ prev.farmaco = farmaco /\ prev.evidencia = evidencia_texto
    /\ ~HayContraindicacion
    /\ prev.dosis # None /\ dosis_calculada # None
    /\ prev.dosis[1] < dosis_calculada[1]
    /\ prev.decision = "APROBADA" /\ resultado.decision = "RECHAZADA"

\* C6 as stated: a positive per-kg dose was extracted (and nothing else decides: no
\* absolute dose, no contraindication) and the weight is zero or absent; the
\* call returns, the dose in the record is "N/D", never "0 mg", and the
\* decision is ALERTA.
C6_PesoAusenteSinDosis ==
    (/\ modo = "validacion" /\ pc \in {"done", "raised"}
     /\ Truthy(dosis_mg_kg) /\ dosis_absoluta = None
     /\ ~HayContraindicacion
     /\ \/ peso_paciente.tipo = "None"
        \/ peso_paciente.tipo = "float" /\ peso_paciente.v = 0)
        => /\ pc = "done"
           /\ resultado.dosis_calculada = DosisND
           /\ resultado.decision = "ALERTA"

\* the dose of the precedence "per-kg dose x weight, else absolute dose, else
\* null", from what was extracted
DosisPorPrecedencia ==
    IF Truthy(dosis_mg_kg) /\ peso_paciente.tipo = "float" /\ peso_paciente.v # 0
    THEN Some(dosis_mg_kg[1] * peso_paciente.v)
    ELSE IF Truthy(dosis_absoluta) THEN dosis_absoluta
    ELSE None

\* C7 as stated: the dose reported in the record returned is the dose of the
\* precedence, the one compared with the limit: a prescription with only an
\* absolute dose reports that dose, one with no dose reports null.
C7_DosisReportada ==
    Devuelto
        => resultado.dosis_calculada =
              IF DosisPorPrecedencia = None THEN DosisND
              ELSE DosisStr(DosisPorPrecedencia[1])

\* C8 as stated: no exception leaves ejecutar_validacion_medica; one raised
\* inside (float() of a missing or non-numeric weight) gives a record whose
\* decision is ALERTA and whose rationale is the exception's message.
C8_NuncaPropaga ==
    /\ modo = "validacion" => pc # "raised"
    /\ (Devuelto /\ FloatRaises(peso_paciente))
          => /\ resultado.decision = "ALERTA"
             /\ resultado.razon = "excepcion"

\* the reply holds no "{" followed by a last "}" whose span parses as JSON
SinJSON ==
    LET primero == Find(raw, "{")
        ultimo  == RFind(raw, "}")
    IN  ~ (primero # 0 /\ ultimo > primero /\ EsJSON(SubSeq(raw, primero, ultimo)))

\* C9: main parses the span from the first "{" to the last "}" of the reply;
\* when there is none or it does not parse, main writes the error record
\* (estado "Error", the raw reply in auditoria.raw_output) and returns without
\* raising; it writes no record that says Aprobada or APROBADA.
C9_RespuestaMalFormada ==
    (/\ modo = "cli"
     /\ pc = "done" \/ (pc = "raised" /\ raw # <<>>)
     /\ SinJSON)
        => /\ pc = "done"
           /\ resultado.estado = "Error"
           /\ "auditoria.raw_output" \in resultado.claves
           /\ resultado.raw_output = raw
           /\ "decision" \notin resultado.claves
           /\ resultado.decision # "APROBADA"

\* C9 witness: a reply with braces whose span from the first "{" to the last
\* "}" is not JSON although a shorter span is
C9_Witness ==
    /\ modo = "cli" /\ pc = "done"
    /\ Len(raw) = 4 /\ raw[1] = "{" /\ raw[2] = "decision=APROBADA"
    /\ raw[3] = "}" /\ raw[4] = "}"
    /\ resultado.estado = "Error" /\ resultado.raw_output = raw

\* _run has returned a text that begins with "Error"
RagError == rag_ret # <<>> /\ rag_ret[1][1] \in {"error_db", "error_rag"}

\* C10 as stated: _run never raises; a missing vector DB, an exception while
\* loading the store or in either search comes back as a text beginning with
\* "Error", an empty search result as the not-found message.
C10_Original ==
    /\ rag_pc # "raised"
    /\ rag_pc = "ret" =>
         /\ (rag_eventos \cap {"sin_db", "carga_falla", "ficha_falla", "general_falla"} # {})
               => RagError
         /\ "general_vacia" \in rag_eventos => rag_ret = << <<"no_encontro">> >>

\* C10 amended: _run never raises; a missing vector DB, an exception while
\* loading the store or in the general search comes back as a text beginning
\* with "Error"; an exception in the targeted search is swallowed and the
\* general search runs in its place; an empty general search comes back as the
\* not-found message.
C10_RagNuncaLanza ==
    /\ rag_pc # "raised"
    /\ rag_pc = "ret" =>
         /\ (rag_eventos \cap {"sin_db", "carga_falla", "general_falla"} # {})
               => RagError
         /\ "ficha_falla" \in rag_eventos
               => rag_eventos \cap {"general_hits", "general_vacia", "general_falla"} # {}
         /\ "general_vacia" \in rag_eventos => rag_ret = << <<"no_encontro">> >>
         /\ (rag_eventos \cap {"general_hits", "ficha_hits"} # {})
               => rag_ret[1] = <<"cabecera">>

\* C10 witness: the targeted search raised, the general search found documents
\* and _run returned them
C10_Witness ==
    /\ rag_pc = "ret"
    /\ {"ficha_falla", "general_hits"} \subseteq rag_eventos
    /\ rag_ret[1] = <<"cabecera">>

\* the targeted search of lines 155-159 was issued in the current call of _run
FichaEmitida == rag_eventos \cap {"ficha_hits", "ficha_vacia", "ficha_falla"} # {}

\* the general search of line 171 was issued in the current call of _run
GeneralEmitida == rag_eventos \cap {"general_hits", "general_vacia", "general_falla"} # {}

\* the store was loaded and the searches of the current call are over
BusquedasHechas == rag_pc \in {"formatear", "ret"} /\ "carga_ok" \in rag_eventos

\* the question names an alias of farmacos_fichas
PreguntaConAlias ==
    \E k \in 1..Len(farmacos_fichas) : \E i \in 1..Len(pregunta) :
       /\ pregunta[i][1] = "nombre"
       /\ farmacos_fichas[k][1] \in Substrings(Lower(pregunta[i][2]))

\* C11: once the store is loaded, the targeted query (top 6, filtered to the
\* drug's reference file) is issued exactly when the question names a mapped
\* alias, and before any general query; the general query (top 5) is issued
\* exactly when the drug is unmapped or the targeted query found nothing or
\* raised; after targeted hits no general query is issued and only documents
\* of the reference file are returned.
C11_OrdenDeConsultas ==
    /\ FichaEmitida => PreguntaConAlias /\ "carga_ok" \in rag_eventos
    /\ rag_pc = "ficha" => ~FichaEmitida /\ ~GeneralEmitida
    /\ BusquedasHechas => (FichaEmitida <=> PreguntaConAlias)
    /\ GeneralEmitida =>
          \/ ~PreguntaConAlias
          \/ rag_eventos \cap {"ficha_vacia", "ficha_falla"} # {}
    /\ BusquedasHechas =>
          (GeneralEmitida <=> \/ ~PreguntaConAlias
                              \/ rag_eventos \cap {"ficha_vacia", "ficha_falla"} # {})
    /\ "ficha_hits" \in rag_eventos =>
          /\ ~GeneralEmitida
          /\ rag_pc = "formatear" =>
                /\ Len(resultados_final) \in 1..6
                /\ \A i \in 1..Len(resultados_final) :
                      \E k \in 1..Len(farmacos_fichas) :
                         /\ farmacos_fichas[k][2] = resultados_final[i].source
                         /\ \E j \in 1..Len(pregunta) :
                               farmacos_fichas[k][1] \in Substrings(Lower(pregunta[j][2]))
    /\ ("general_hits" \in rag_eventos /\ rag_pc = "formatear")
          => Len(resultados_final) \in 1..5

\* C11 witness: the reference file holds more than 6 documents and the targeted
\* query returned 6 of them; no general query was issued
C11_Witness ==
    /\ rag_pc = "formatear" /\ "ficha_hits" \in rag_eventos
    /\ ~GeneralEmitida
    /\ Cardinality({ d \in corpus : d.source = "ficha tecnica ibuprofeno.pdf" }) > 6
    /\ Len(resultados_final) = 6

\* the loop over the name variants is behind the call
TrasConsultar ==
    modo = "validacion" /\ pc \in {"decidir", "calcular", "estructurar", "done", "raised"}

\* the answers of this call that literally contain the variant asked or the
\* drug name, and the answers that are not empty
RespuestasEnTema ==
    { i \in 1..Len(respuestas) :
        \/ EnEvidencia(Lower(NombresBuscar(farmaco)[i]), respuestas[i])
        \/ EnEvidencia(Lower(farmaco), respuestas[i]) }

RespuestasNoVacias == { i \in 1..Len(respuestas) : respuestas[i] # <<>> }

\* C12: evidence is never discarded for being off-topic: the evidence handed on
\* is the first answer, in name-variant order, that literally contains the
\* variant asked or the drug name (the loop stops there); when no answer is
\* on-topic every variant was asked and the evidence is the first non-empty
\* answer; it is empty only if every answer was empty.
C12_EvidenciaNoDescartada ==
    TrasConsultar =>
        IF RespuestasEnTema # {}
        THEN LET i == CHOOSE i \in RespuestasEnTema : \A j \in RespuestasEnTema : i <= j
             IN  /\ evidencia_texto = respuestas[i]
                 /\ Len(respuestas) = i
        ELSE /\ Len(respuestas) = Len(NombresBuscar(farmaco))
             /\ IF RespuestasNoVacias # {}
                THEN evidencia_texto =
                       respuestas[CHOOSE i \in RespuestasNoVacias :
                                     \A j \in RespuestasNoVacias : i <= j]
                ELSE evidencia_texto = <<>>

\* C12 witness: two different answers, neither on-topic; the first is the
\* evidence the call decided on
C12_Witness ==
    /\ Devuelto
    /\ Len(respuestas) = 2 /\ RespuestasEnTema = {}
    /\ respuestas[1] # respuestas[2]
    /\ respuestas[2][1] = <<"cabecera">>
    /\ evidencia_texto = respuestas[1]

\* an evidence query that failed: the adapter answered with an error text
EsFallo(ev) == ev # <<>> /\ ev[1][1] \in {"error_db", "error_rag", "error_consulta"}

\* C13 as stated: once an evidence query of the call has failed no further
\* evidence query is issued in that call, and the call goes on to the
\* no-usable-evidence case.
C13_SinReintento ==
    modo = "validacion" =>
        \A i \in 1..Len(respuestas) :
            EsFallo(respuestas[i])
               => /\ pc # "esperando"
                  /\ i = Len(respuestas)
                  /\ pc \in {"calcular", "estructurar", "done"}
                        => decision = "ALERTA" /\ razon = "sin_informacion"

\* the patterns of patrones_dosis_max, by rank, that match the evidence
PatronesQueCoinciden ==
    { k \in 1..Len(patrones_dosis_max) :
        \E i \in 1..Len(evidencia_texto) : evidencia_texto[i][1] \in patrones_dosis_max[k] }

\* the first phrase of the evidence, in text order, that pattern k matches
PrimeraFrase(k) ==
    CHOOSE i \in 1..Len(evidencia_texto) :
       /\ evidencia_texto[i][1] \in patrones_dosis_max[k]
       /\ \A j \in 1..(i-1) : evidencia_texto[j][1] \notin patrones_dosis_max[k]

\* C14: the guideline limit is taken from the earliest pattern, in the list
\* order of patrones_dosis_max, that matches anywhere in the evidence; matches
\* of later patterns are ignored even when they come earlier in the text, no
\* values are merged, and with no match the limit is null.
C14_PrimerPatronGana ==
    TrasDecidir =>
        IF PatronesQueCoinciden = {}
        THEN dosis_max_guia = None
        ELSE LET k  == CHOOSE k \in PatronesQueCoinciden :
                          \A h \in PatronesQueCoinciden : k <= h
                 ph == evidencia_texto[PrimeraFrase(k)]
             IN  dosis_max_guia = Some(ph[Len(ph)])

\* C14 witness: a match of a later-ranked pattern comes first in the text with
\* another value, and the limit is the value of the earlier-ranked pattern
C14_Witness ==
    /\ Devuelto
    /\ \E i, j \in 1..Len(evidencia_texto) :
          /\ i < j
          /\ evidencia_texto[i][1] = "mg_kg_dia"
          /\ evidencia_texto[j][1] = "hasta"
          /\ evidencia_texto[i][2] # evidencia_texto[j][2]
          /\ dosis_max_guia = Some(evidencia_texto[j][2])

\* the evidence states a weekly range and nothing an earlier-ranked pattern
\* matches
SoloRangoSemanal ==
    /\ \E i \in 1..Len(evidencia_texto) : evidencia_texto[i][1] = "rango_semana"
    /\ \A i \in 1..Len(evidencia_texto) :
          evidencia_texto[i][1] \notin
             {"menos_de_semana", "dosis_bajas_semana", "dosis_bajas", "dosis_maxima",
              "maximo_semana", "dosis_maxima_diaria", "no_exceder", "hasta", "mg_kg_dia"}

\* the first weekly range "N-M mg/semana" of the evidence
PrimerRango ==
    evidencia_texto[CHOOSE i \in 1..Len(evidencia_texto) :
                      /\ evidencia_texto[i][1] = "rango_semana"
                      /\ \A j \in 1..(i-1) : evidencia_texto[j][1] # "rango_semana"]

\* C15: when the evidence states a weekly range N-M mg/semana and no
\* earlier-ranked pattern matches, the limit is the upper bound M; with no
\* contraindication a prescribed dose below M is APROBADA and a dose of M or
\* more is RECHAZADA.
C15_RangoLimiteSuperior ==
    (TrasDecidir /\ SoloRangoSemanal)
        => /\ dosis_max_guia = Some(PrimerRango[3])
           /\ (pc = "done" /\ ~HayContraindicacion /\ dosis_calculada # None)
                 => /\ dosis_calculada[1] < PrimerRango[3]
                          => resultado.decision = "APROBADA"
                    /\ dosis_calculada[1] >= PrimerRango[3]
                          => resultado.decision = "RECHAZADA"

\* C15 witness: a dose inside the range, at or above N and below M, approved
C15_Witness ==
    /\ Devuelto /\ SoloRangoSemanal /\ ~HayContraindicacion
    /\ dosis_calculada # None
    /\ PrimerRango[2] <= dosis_calculada[1]
    /\ dosis_calculada[1] < PrimerRango[3]
    /\ dosis_max_guia = Some(PrimerRango[3])
    /\ resultado.decision = "APROBADA"

\* PASO 1-3 are behind the call
TrasExtraer == modo = "validacion" /\ pc # "inicio"

\* the text holds a phrase of one of the kinds
HayFrase(kinds) == \E i \in 1..Len(texto_medico) : texto_medico[i][1] \in kinds

\* the N of the first "cada N h" of the text
PrimerCadaH ==
    texto_medico[CHOOSE i \in 1..Len(texto_medico) :
                   /\ texto_medico[i][1] = "cada_h"
                   /\ \A j \in 1..(i-1) : texto_medico[j][1] # "cada_h"][2]

\* C16: frequency extraction follows a strict precedence: "cada N h" gives N
\* hours even if "semanal" or "diario" also appear; otherwise "semanal" gives
\* 168; otherwise "diario"/"diaria" gives 24; otherwise the frequency text is
\* blank and the hours are null.  The record returned carries these values.
C16_PrecedenciaFrecuencia ==
    TrasExtraer =>
        /\ IF HayFrase({"cada_h"})
           THEN frecuencia = [texto |-> "cada_horas", horas |-> Some(PrimerCadaH)]
           ELSE IF HayFrase({"semanal"})
           THEN frecuencia = [texto |-> "semanal", horas |-> Some(168)]
           ELSE IF HayFrase({"diario", "diaria"})
           THEN frecuencia = [texto |-> "diario", horas |-> Some(24)]
           ELSE frecuencia = [texto |-> "", horas |-> None]
        /\ pc = "done" => /\ resultado.frecuencia = frecuencia.texto
                          /\ resultado.frecuencia_horas = frecuencia.horas

\* C16 witness: "semanal" and "diaria" come before "cada 8 h" in the text and
\* the record returned says 8 hours
C16_Witness ==
    /\ Devuelto
    /\ Len(texto_medico) = 3
    /\ texto_medico[1][1] = "semanal" /\ texto_medico[2][1] = "diaria"
    /\ texto_medico[3] = <<"cada_h", 8>>
    /\ resultado.frecuencia_horas = Some(8)

\* the words of 4 letters or more of the text, by position, lower-cased
PalabraEn(i) ==
    CASE texto_medico[i][1] = "nombre"  -> Lower(texto_medico[i][2])
      [] texto_medico[i][1] = "cada_h"  -> "cada"
      [] texto_medico[i][1] \in {"semanal", "diario", "diaria"} -> texto_medico[i][1]
      [] OTHER -> ""

\* the ranks, in farmacos_conocidos, of the names that are a substring of the
\* lower-cased text
ConocidosEnTexto ==
    { k \in 1..Len(farmacos_conocidos) :
        \E i \in 1..Len(texto_medico) :
           farmacos_conocidos[k] \in Substrings(PalabraEn(i)) }

\* the name returned for the first known drug, in list order
PrimerConocido ==
    LET k == CHOOSE k \in ConocidosEnTexto : \A h \in ConocidosEnTexto : k <= h
    IN  IF farmacos_conocidos[k] = "metotrexate" THEN "Metotrexato"
        ELSE (CHOOSE p \in CapTabla : p[1] = farmacos_conocidos[k])[2]

\* positions of the words of 4 letters or more, and of those written with a
\* capital in the text
PosPalabras == { i \in 1..Len(texto_medico) : PalabraEn(i) # "" }

PosCapitalizadas ==
    { i \in 1..Len(texto_medico) :
        /\ texto_medico[i][1] = "nombre"
        /\ \E p \in CapTabla : p[2] = texto_medico[i][2] }

\* C17 as stated: the first known drug in list order; else the first
\* capitalized word of at least 4 letters of the text; else "Desconocido".
C17_Original ==
    TrasExtraer =>
        farmaco =
           IF ConocidosEnTexto # {} THEN PrimerConocido
           ELSE IF PosCapitalizadas # {}
           THEN texto_medico[CHOOSE i \in PosCapitalizadas :
                                \A j \in PosCapitalizadas : i <= j][2]
           ELSE "Desconocido"

\* C17 amended: drug extraction returns, capitalized, the first name of the
\* known-drug list, in list order and not in text order, that is a
\* case-insensitive substring of the text ("metotrexate" as "Metotrexato");
\* else the first word of at least 4 letters of the text, in whatever case it
\* is written, capitalized; else "Desconocido".
C17_ExtraccionFarmaco ==
    TrasExtraer =>
        farmaco =
           IF ConocidosEnTexto # {} THEN PrimerConocido
           ELSE IF PosPalabras # {}
           THEN (CHOOSE p \in CapTabla :
                    p[1] = PalabraEn(CHOOSE i \in PosPalabras :
                                        \A j \in PosPalabras : i <= j))[2]
           ELSE "Desconocido"

\* C17 witness: a known drug of lower rank comes first in the text, the other
\* is written with a capital, and the one of higher rank is returned
C17_Witness ==
    /\ Devuelto
    /\ Len(texto_medico) >= 2
    /\ texto_medico[1] = <<"nombre", "naproxeno">>
    /\ texto_medico[2] = <<"nombre", "Ibuprofeno">>
    /\ resultado.farmaco = "Ibuprofeno"

\* the keys the docstring of ejecutar_validacion_medica gives to "auditoria"
ClavesAuditoria == {"auditoria.es_aij", "auditoria.razon",
                    "auditoria.dosis_max_guia", "auditoria.evidencia_raw"}

\* C18: every result returned by ejecutar_validacion_medica contains an audit
\* section holding the approval flag, the rationale, dosis_max_guia and the
\* evidence excerpt, on the normal path and on the fallback path.
C18_AuditoriaCompleta == Devuelto => ClavesAuditoria \subseteq resultado.claves

TrasValidarLocal == modo = "local" /\ pc = "done"

\* the plan names methotrexate and writes a dose per m2
PlanMtxPorM2 == EsMetotrexato(plan_texto) /\ Buscar({"mg_m2"}, plan_texto) # 0

\* the dose per m2 of the plan, in tenths of mg/m2
DosisM2DelPlan == plan_texto[Buscar({"mg_m2"}, plan_texto)][2]

DeProcRun ==
    /\ pc = "done"
    /\ modo \in {"validacion", "cli"}
    /\ "decision" \in resultado.claves
    /\ "auditoria.evidencia_raw" \notin resultado.claves

\* C21: in every result built by ProcesarRecetaTool._run the "estado" field
\* agrees with the "decision" field: "Aprobada" exactly when the decision is
\* "APROBADA", "Alerta" exactly when it is "ALERTA" and "Rechazada" exactly
\* when it is "RECHAZADA".
C21_EstadoSegunDecision ==
    DeProcRun =>
        /\ resultado.estado = "Aprobada" <=> resultado.decision = "APROBADA"
        /\ resultado.estado = "Alerta" <=> resultado.decision = "ALERTA"
        /\ resultado.estado = "Rechazada" <=> resultado.decision = "RECHAZADA"

\* validar_pauta has returned, or has raised
TrasAuditar == modo = "procesar" /\ pc \in {"done", "raised"}

\* the reply of the auditor's model holds no object that json.loads reads
SinVeredicto == ~EsJSONAud(TrozoAud(raw))

\* C22: validar_pauta fails safe: when the LLM call raises or its reply holds
\* no parseable JSON object the verdict has aprobado = False with an alert,
\* and no failure during validation, the evidence search included, gives
\* aprobado = True or an exception propagated to the caller.
C22_FallaSegura ==
    /\ (modo = "procesar" /\ pc = "done" /\ SinVeredicto) =>
          /\ analisis_seguridad.aprobado = FALSE
          /\ analisis_seguridad.alertas # ""
    /\ modo = "procesar" => pc # "raised"

\* the names of the medicines of a list, as a set
Nombres(lista) == { lista[i].nombre[1] : i \in { j \in 1..Len(lista) : lista[j].nombre # None } }

\* C23: the set of medicine names validar_pauta puts in its evidence query
\* and prompt equals the set of medicine names of "tratamiento_secuencial" in
\* the structurer's output; a prescription with at least one extracted
\* medicine is never audited as an empty medicine list.
C23_MismosMedicamentos ==
    (modo = "procesar" /\ pc \in {"aud_llm", "done"}) =>
        { medicamentos[i] : i \in 1..Len(medicamentos) }
           = Nombres(pauta_json.tratamiento_secuencial)

\* every call that was started has finished, and h1 and h2 are two of them
Terminados(tipo) ==
    /\ modo = "disco"
    /\ \A h \in Hilos : hilos[h].pc \in {"parado", "hecho"}
    /\ \E h \in Hilos : hilos[h].pc = "hecho" /\ hilos[h].tipo = tipo

\* the record of every finished guardar_historial is in the history file
RegistrosGuardados ==
    \A h \in Hilos :
       (hilos[h].pc = "hecho" /\ hilos[h].tipo = "historial") =>
          /\ ~file_historial.truncado
          /\ \E i \in 1..Len(file_historial.db[hilos[h].id]) :
                file_historial.db[hilos[h].id][i] = Registro(h)

\* the patient of every finished guardar_paciente is in the patients file,
\* when no other call saved the same patient
PacientesGuardados ==
    \A h \in Hilos :
       ( /\ hilos[h].pc = "hecho" /\ hilos[h].tipo = "paciente"
         /\ \A g \in Hilos \ {h} : ~(hilos[g].tipo = "paciente" /\ hilos[g].id = hilos[h].id) )
       => /\ ~file_pacientes.truncado
          /\ file_pacientes.db[hilos[h].id] = Some(Paciente(hilos[h].id, h))

\* C29: no visit record is lost under concurrent saves: when two
\* guardar_historial calls interleave, after both complete the history file
\* holds both new records; and two interleaved guardar_paciente calls for
\* different patients both persist.
C29_NadaSePierde ==
    /\ Terminados("historial") => RegistrosGuardados
    /\ Terminados("paciente") => PacientesGuardados

\* generar_alertas has just returned
Generado == modo = "panel" /\ pc = "generado"

\* C24: after marcar_alerta_resuelta is called in calendar month m for an
\* alert that generar_alertas returned, no generar_alertas during month m
\* returns an alert with that id; in any later month in which the condition
\* holds the alert is returned again, whatever was resolved in earlier
\* months.  So the alerts returned are those of the types whose condition
\* holds and that were not marked in the month of the call, with ids made of
\* type and month.
C24_ResueltaSoloEsteMes ==
    Generado =>
        /\ \A a \in alertas : a.id = << a.tipo, mes >> /\ << a.id, mes >> \notin marcadas
        /\ \A t \in TiposAlerta :
              (t \in condiciones /\ << << t, mes >>, mes >> \notin marcadas)
                 => [id |-> << t, mes >>, tipo |-> t] \in alertas

\* C24 witness: an alert resolved in an earlier month, and in that month
\* only, is returned again
C24_Witness ==
    /\ Generado
    /\ mes > 1
    /\ \E t \in TiposAlerta :
          /\ << << t, mes - 1 >>, mes - 1 >> \in marcadas
          /\ << << t, mes >>, mes >> \notin marcadas
          /\ [id |-> << t, mes >>, tipo |-> t] \in alertas

\* responder_duda_paciente has returned
Respondido == modo = "bot" /\ pc = "done"

\* the question holds an urgency keyword
DudaUrgente ==
    \E i \in 1..Len(duda) : \E x \in palabras_urgencia : x \in Dentro(LowerDuda(duda[i]))

\* C25: the guardrail comes first: every question that holds an urgency
\* keyword gets the urgent-referral message, whatever missed-dose, alcohol,
\* weather, medication or appointment keywords it also holds and whatever
\* the history of the patient.
C25_UrgenciaPrimero == (Respondido /\ DudaUrgente) => respuesta_bot = "urgencia"

\* C25 witness: a question with a missed-dose keyword before an urgency
\* keyword written in capitals, from a patient with a plan
C25_Witness ==
    /\ Respondido
    /\ Len(duda) >= 2
    /\ duda[1] = "perdido" /\ duda[2] = "BLOOD"
    /\ historial_paciente # <<>>
    /\ respuesta_bot = "urgencia"

\* an evidence text with the unit class of its limit phrases rubbed out
SinUnidad(ev) ==
    [i \in 1..Len(ev) |-> IF ev[i][1] \in ClasesLimite THEN << "limite", ev[i][2] >> ELSE ev[i]]

SinUnidades(resps) == [i \in 1..Len(resps) |-> SinUnidad(resps[i])]

\* the limit the evidence states per kg and day, if it states one
LimitePorKg ==
    IF \E i \in 1..Len(evidencia_texto) : evidencia_texto[i][1] = "mg_kg_dia"
    THEN Some(evidencia_texto[CHOOSE i \in 1..Len(evidencia_texto) :
                                evidencia_texto[i][1] = "mg_kg_dia"][2])
    ELSE None

\* C26: the decision depends on the guideline limit through its number only:
\* two calls that differ only in the unit class of the limit phrase or only in
\* the frequency of the prescription, and whose queries were answered alike,
\* give the same decision; and a limit per kg and day is compared as it
\* stands with the total prescribed mg.
C26_SoloElNumero ==
    /\ ( /\ Devuelto /\ prev.hay
         /\ SinUnidades(prev.respuestas) = SinUnidades(respuestas) )
       => /\ resultado.decision = prev.decision
          /\ resultado.es_aij = prev.resultado.es_aij
    /\ (Devuelto /\ LimitePorKg # None /\ DosisPorPrecedencia # None) =>
          resultado.decision =
             IF DosisPorPrecedencia[1] >= LimitePorKg[1] THEN "RECHAZADA" ELSE "APROBADA"

\* C26 witness: the first call read "hasta n mg" for a weekly prescription,
\* the second reads "n mg/kg/día" for one taken every 8 hours, and both
\* reject the dose
C26_Witness ==
    /\ Devuelto /\ prev.hay
    /\ prev.evidencia # evidencia_texto
    /\ SinUnidades(prev.respuestas) = SinUnidades(respuestas)
    /\ \E i \in 1..Len(prev.evidencia) : prev.evidencia[i][1] = "hasta"
    /\ LimitePorKg # None
    /\ prev.texto # texto_medico
    /\ frecuencia.texto = "cada_horas"
    /\ resultado.decision = "RECHAZADA" /\ prev.decision = "RECHAZADA"

\* C27: for a plan in which methotrexate is detected, "Approved" implies that
\* a dose was parsed and that its value per m2, as written or the plain mg
\* divided by a positive bsa, is at most 15 mg/m2.
C27_AprobadoConDosis ==
    ( /\ TrasValidarLocal
      /\ EsMetotrexato(plan_texto)
      /\ res_local.decision = "Approved" )
    => /\ res_local.dosis_prescrita # None
       /\ res_local.dosis_prescrita[1].m2 <= 10 * MAX_DOSE_MG_M2
       /\ res_local.dosis_prescrita[1].mg # None => bsa > 0

\* the visits of P_1 that the form has written to the history file
VisitasGuardadas == cargar_json_seguro(file_historial, SinHistorial)["P_1"]

\* C28: every visit the form saved was saved after a validation, a plan
\* validated as "Warning" only with the override button, and the auditoria_ia
\* stored with it is the validation of the very plan_tratamiento stored.
C28_AuditoriaDelPlanGuardado ==
    \A i \in 1..Len(VisitasGuardadas) :
        LET v == VisitasGuardadas[i]
        IN  /\ v.auditoria_ia # None
            /\ v.auditoria_ia[1].decision = "Warning" => botones[i] = "override"
            /\ v.auditoria_ia[1] \in ValidarPlan(v.plan_tratamiento, v.bsa)

\* the last thing the user of this session did: a sign-in or a log-out
UltimoIntento == intentos[Len(intentos)]

\* C30: check_password returns True only after admin/admin was submitted in
\* this session and not since logged out; after wrong credentials the login
\* form is offered again; after cerrar_sesion the login form is shown.
C30_LoginOfrecido ==
    /\ check_password =>
          intentos # <<>> /\ UltimoIntento = << "admin", "admin" >>
    /\ (intentos # <<>> /\ UltimoIntento # << "admin", "admin" >>) =>
          pantalla = "login"

=============================================================================
